---- MODULE Spec2Model ----
(***************************************************************************)
(* Model of the maritime speed / fuel / cost estimator of the ship         *)
(* simulation: utils/maritimeCalculations (src/unnamed/part_003), the      *)
(* ShipSimulation component (src/unnamed/part_004), RouteCostAnalysis      *)
(* (src/unnamed/part_005) and the copies in client/src/SimpleMap.jsx.      *)
(*                                                                         *)
(* Numbers.  The JavaScript code computes in IEEE doubles; the model       *)
(* computes in scaled integers, exactly where the scale allows it:         *)
(*   speeds (knots)               micro-knots      (Kn units per knot)     *)
(*   wind speed (m/s)             whole m/s                                *)
(*   wave and swell height (m)    decimetres                               *)
(*   current speed (kn)           tenths of a knot                         *)
(*   angles                       whole degrees, multiples of 30           *)
(*   cosines                      thousandths (CosMilli)                   *)
(*   multipliers and factors      thousandths                              *)
(*   fuel                         hundredths of kg (per hour)              *)
(*   money                        US cents                                 *)
(* A double that is not finite (Infinity, NaN) is modelled by its class:   *)
(* a number is a record [cls, val] with cls in finite / inf / neginf / nan.*)
(***************************************************************************)
EXTENDS Integers, Sequences, FiniteSets, TLC

VARIABLES
  pc,               \* "ready": inputs drawn, nothing called; then the name of the last step
  fn,               \* the function (or the copy of it) the inputs were drawn for
  args,             \* the inputs of the call
  result,           \* what the called function returned
  fuelConsumption,  \* the FuelConsumption record of calculateFuelConsumption
  routeCost,        \* the RouteCost record of calculateRouteCost
  apiKey,           \* weatherService: whether OPENWEATHER_API_KEY is configured
  promises,         \* fetchRouteWeatherData: the promise of each waypoint, in forEach order
  routeWeatherData, \* fetchRouteWeatherData: its local weatherData map
  written,          \* the keys assigned in routeWeatherData, in the order of the assignments
  component,        \* ShipSimulation: the values of its useState hooks
  runs,             \* ShipSimulation: the startSimulation calls made, with their closures
  parent,           \* the parent's side of onSimulationUpdate: calls received, last payload
  clicks,           \* button clicks made so far
  cancelled,        \* Stop or Reset was clicked and Start has not been clicked since
  loadingWaypoints, \* SimpleMap: its loadingWaypoints state, waypointId -> boolean
  waypointData,     \* SimpleMap: its waypointData state, waypointId -> record
  fetches           \* SimpleMap: the fetchWaypointWeatherData calls made so far

\* the state of the waypoint markers of SimpleMap
mapVars == <<loadingWaypoints, waypointData, fetches>>

\* the state of the weather service, of the simulation stepper and of the map
backgroundVars ==
  <<apiKey, promises, routeWeatherData, written, component, runs, parent, clicks, cancelled,
    mapVars>>

\* the state of the simulation stepper alone
simVars == <<component, runs, parent, clicks, cancelled>>

vars == <<pc, fn, args, result, fuelConsumption, routeCost, backgroundVars>>

-----------------------------------------------------------------------------
(* JavaScript values *)

\* null / undefined / a missing property
Null == [null |-> TRUE]

\* the empty object literal {}
EmptyObject == [k \in {} |-> 0]

\* a variable that holds nothing yet
None == [none |-> TRUE]

Max(a, b) == IF a >= b THEN a ELSE b

Abs(a) == IF a >= 0 THEN a ELSE -a

\* JavaScript's %: the remainder takes the sign of the dividend
JsRem(a, n) == IF a >= 0 THEN a % n ELSE -((-a) % n)

\* a finite double, and the doubles that are not finite
Fin(n) == [cls |-> "finite", val |-> n]
PosInf == [cls |-> "inf", val |-> 0]
NegInf == [cls |-> "neginf", val |-> 0]
NaN == [cls |-> "nan", val |-> 0]

\* JavaScript's n / d on finite doubles, the quotient scaled by `scale':
\* a division by zero raises nothing, it yields Infinity, -Infinity or NaN
JsDiv(n, d, scale) ==
  IF d # 0 THEN Fin((n * scale) \div d)
  ELSE IF n > 0 THEN PosInf
  ELSE IF n < 0 THEN NegInf
  ELSE NaN

\* Math.max(0, x)
JsMax0(x) ==
  CASE x.cls = "finite" -> Fin(Max(0, x.val))
    [] x.cls = "inf" -> PosInf
    [] x.cls = "neginf" -> Fin(0)
    [] x.cls = "nan" -> NaN

\* x * k / d for a double x and positive finite k, d
JsScale(x, k, d) == IF x.cls = "finite" THEN Fin((x.val * k) \div d) ELSE x

\* a + b on doubles
JsAdd(a, b) ==
  IF a.cls = "finite" /\ b.cls = "finite" THEN Fin(a.val + b.val)
  ELSE IF a.cls = "nan" \/ b.cls = "nan" THEN NaN
  ELSE IF a.cls = "finite" THEN b
  ELSE IF b.cls = "finite" \/ a.cls = b.cls THEN a
  ELSE NaN

\* micro-knots per knot
Kn == 1000 * 1000

\* the useState initial values of ShipSimulation; the progress (percent) and
\* the two times (hundredths of an hour) are doubles, the speed is in micro-knots
MountedComponent ==
  [isSimulationRunning |-> FALSE,
   shipPosition |-> 0,
   simulationProgress |-> Fin(0),
   currentWeatherAffectedSpeed |-> 0,
   currentWaypointWeather |-> Null,
   waypointData |-> EmptyObject,
   simulationIntervalRef |-> Null,
   totalTravelTime |-> Fin(0),
   currentSegmentTime |-> Fin(0),
   currentFuelConsumption |-> Null,
   currentRouteCost |-> Null]

\* no onSimulationUpdate call received yet
NoUpdates == [updates |-> 0, last |-> None]

\* nothing fetched, nothing running
BackgroundIdle ==
  /\ apiKey = FALSE
  /\ promises = << >>
  /\ routeWeatherData = EmptyObject
  /\ written = << >>
  /\ component = MountedComponent
  /\ runs = << >>
  /\ parent = NoUpdates
  /\ clicks = 0
  /\ cancelled = FALSE
  /\ loadingWaypoints = EmptyObject
  /\ waypointData = EmptyObject
  /\ fetches = << >>

\* Math.cos(deg * Math.PI / 180) in thousandths, for the multiples of 30 degrees.
\* (Math.cos(Math.PI / 2) is 6.1e-17 in doubles: 0 at this resolution.)
CosMilli(deg) ==
  LET a == deg % 360
  IN CASE a = 0 -> 1000
       [] a \in {30, 330} -> 866
       [] a \in {60, 300} -> 500
       [] a \in {90, 270} -> 0
       [] a \in {120, 240} -> -500
       [] a \in {150, 210} -> -866
       [] a = 180 -> -1000

-----------------------------------------------------------------------------
(* MARITIME_CONSTANTS, utils/maritimeCalculations *)

AIR_DENSITY == 1225                    \* 1.225 kg/m3, in thousandths
SHIP_DRAG_COEFFICIENT == 8             \* 0.8, in tenths
SHIP_BEAM == 60                        \* m
SHIP_HEIGHT == 45                      \* m
WAVE_RESISTANCE_COEFFICIENT == 300     \* 0.3 kn per m, in thousandths
SWELL_RESISTANCE_COEFFICIENT == 200    \* 0.2 kn per m, in thousandths
WIND_RESISTANCE_COEFFICIENT == 25      \* 0.025 kn per kn, in thousandths
MinimumStw == 5                        \* Math.max(5, ...) knots
basePower == 7000                      \* kW at base speed

-----------------------------------------------------------------------------
(* The four resistance calculators *)

\* a plausible slip: the apparent wind, the ship's own speed added
RelativeWindSpeed_apparent(windSpeed, relativeWindAngle, shipSpeed) ==
  windSpeed * CosMilli(relativeWindAngle) + shipSpeed * 1000

\* windSpeed * Math.cos(relativeWindAngleRad), in mm/s; shipSpeed is not used
RelativeWindSpeed(windSpeed, relativeWindAngle, shipSpeed) ==
  windSpeed * CosMilli(relativeWindAngle)

\* windSpeed in m/s, angles in degrees; force in N, relativeSpeed in mm/s,
\* speedImpact in micro-knots
calculateWindResistance(windSpeed, windDirection, shipCourse, shipSpeed) ==
  LET relativeWindAngle == JsRem(windDirection + 180, 360) - shipCourse
      relativeWindSpeed == RelativeWindSpeed(windSpeed, relativeWindAngle, shipSpeed)
      transverseArea == SHIP_BEAM * SHIP_HEIGHT
      windForce == ((AIR_DENSITY * SHIP_DRAG_COEFFICIENT * transverseArea) \div 20000)
                     * windSpeed * windSpeed
      windSpeedImpact == relativeWindSpeed * WIND_RESISTANCE_COEFFICIENT
  IN [force |-> windForce,
      relativeAngle |-> relativeWindAngle,
      relativeSpeed |-> relativeWindSpeed,
      speedImpact |-> windSpeedImpact,
      isHeadwind |-> relativeWindSpeed > 0,
      isTailwind |-> relativeWindSpeed < 0]

\* a plausible slip: the clamp left out, so a following sea speeds the ship up
SpeedLoss_unclamped(alongCourse, coefficient) == (alongCourse * coefficient) \div 10

\* Math.max(0, alongCourse) * coefficient: alongCourse in 1/10000 m, the
\* coefficient in thousandths of a knot per metre, the loss in micro-knots
SpeedLoss(alongCourse, coefficient) == (Max(0, alongCourse) * coefficient) \div 10

\* waveHeight in dm; alongCourse in 1/10000 m, speedLoss in micro-knots
calculateWaveResistance(waveHeight, waveDirection, shipCourse) ==
  LET relativeWaveAngle == waveDirection - shipCourse
      waveAlongCourse == waveHeight * CosMilli(relativeWaveAngle)
      speedLoss == SpeedLoss(waveAlongCourse, WAVE_RESISTANCE_COEFFICIENT)
  IN [relativeAngle |-> relativeWaveAngle,
      alongCourse |-> waveAlongCourse,
      speedLoss |-> speedLoss,
      isHeadSea |-> waveAlongCourse > 0,
      isFollowingSea |-> waveAlongCourse < 0]

\* swellHeight in dm; alongCourse in 1/10000 m, speedLoss in micro-knots
calculateSwellResistance(swellHeight, swellDirection, shipCourse) ==
  LET relativeSwellAngle == swellDirection - shipCourse
      swellAlongCourse == swellHeight * CosMilli(relativeSwellAngle)
      speedLoss == SpeedLoss(swellAlongCourse, SWELL_RESISTANCE_COEFFICIENT)
  IN [relativeAngle |-> relativeSwellAngle,
      alongCourse |-> swellAlongCourse,
      speedLoss |-> speedLoss,
      isHeadSwell |-> swellAlongCourse > 0,
      isFollowingSwell |-> swellAlongCourse < 0]

\* currentSpeed in tenths of a knot; alongCourse in micro-knots
calculateCurrentEffect(currentSpeed, currentDirection, shipCourse) ==
  LET relativeCurrentAngle == currentDirection - shipCourse
      currentAlongCourse == currentSpeed * CosMilli(relativeCurrentAngle) * 100
  IN [relativeAngle |-> relativeCurrentAngle,
      alongCourse |-> currentAlongCourse,
      isFavorable |-> currentAlongCourse > 0,
      isAdverse |-> currentAlongCourse < 0]

-----------------------------------------------------------------------------
(* The composite speed calculator *)

\* !weatherData || !weatherData.weather || !weatherData.ocean
NoWeatherData(weatherData) ==
  \/ weatherData = Null
  \/ weatherData.weather = Null
  \/ weatherData.ocean = Null

\* basePower * Math.pow(stwRequired / baseSpeed, 3) - basePower, in kW;
\* stwRequired in micro-knots, baseSpeed in knots.  The ratio is kept in
\* thousandths.  No guard on baseSpeed: a zero divisor yields Infinity.
PowerIncrease(stwRequired, baseSpeed) ==
  LET ratio == JsDiv(stwRequired \div 1000, baseSpeed, 1)
      r == ratio.val
      cube == (((r * r) \div 1000) * r) \div 1000
  IN IF ratio.cls = "finite"
     THEN Fin((basePower * cube) \div 1000 - basePower)
     ELSE ratio

\* a plausible slip: the 5 kn floor of the main path applied to the fallback too
NoDataResult_floored(baseSpeed) ==
  [sog |-> Max(0, baseSpeed * Kn),
   stw |-> Max(MinimumStw * Kn, baseSpeed * Kn),
   powerIncrease |-> Fin(0),
   fuelIncrease |-> Fin(0),
   factors |-> EmptyObject,
   totalResistance |-> 0,
   threw |-> FALSE]

\* the record returned when there is no weather data
NoDataResult(baseSpeed) ==
  [sog |-> baseSpeed * Kn,
   stw |-> baseSpeed * Kn,
   powerIncrease |-> Fin(0),
   fuelIncrease |-> Fin(0),
   factors |-> EmptyObject,
   totalResistance |-> 0,
   threw |-> FALSE]

\* a plausible slip: the current counted as a loss like the other three
TotalSpeedImpact_currentAsLoss(currentEffect, windResistance, waveResistance, swellResistance) ==
  0 - currentEffect.alongCourse
    - windResistance.speedImpact
    - waveResistance.speedLoss
    - swellResistance.speedLoss

\* the signed sum of the four effects, in micro-knots
TotalSpeedImpact(currentEffect, windResistance, waveResistance, swellResistance) ==
  currentEffect.alongCourse
    - windResistance.speedImpact
    - waveResistance.speedLoss
    - swellResistance.speedLoss

\* a plausible slip: the clamp at 0 left out
SpeedOverGround_unclamped(baseSpeed, totalSpeedImpact) == baseSpeed * Kn + totalSpeedImpact

\* Math.max(0, baseSpeed + totalSpeedImpact), in micro-knots
SpeedOverGround(baseSpeed, totalSpeedImpact) == Max(0, baseSpeed * Kn + totalSpeedImpact)

\* the impact added to the speed through water as it is to the speed over ground
SpeedThroughWater_impactAdded(baseSpeed, totalSpeedImpact) ==
  Max(MinimumStw * Kn, baseSpeed * Kn + totalSpeedImpact)

\* Math.max(5, baseSpeed - totalSpeedImpact), in micro-knots
SpeedThroughWater(baseSpeed, totalSpeedImpact) ==
  Max(MinimumStw * Kn, baseSpeed * Kn - totalSpeedImpact)

\* baseSpeed in knots; sog and stw in micro-knots; powerIncrease in kW,
\* fuelIncrease in kg/h; totalResistance in thousandths of a newton.
\* `threw' records whether the call raised an error: the function has no
\* throw statement and dereferences nothing that can be missing.
calculateWeatherAffectedSpeed(baseSpeed, weatherData, shipCourse) ==
  IF NoWeatherData(weatherData)
  THEN NoDataResult(baseSpeed)
  ELSE
    LET wind == weatherData.weather.wind
        windSpeed == IF wind = Null THEN 0 ELSE wind.speed          \* wind?.speed || 0
        windDirection == IF wind = Null THEN 0 ELSE wind.deg        \* wind?.deg || 0
        waveHeight == weatherData.ocean.waveHeight
        swellHeight == weatherData.ocean.swellHeight
        swellDirection == weatherData.ocean.swellDirection
        currentSpeed == weatherData.ocean.currentSpeed
        currentDirection == weatherData.ocean.currentDirection
        windResistance == calculateWindResistance(windSpeed, windDirection, shipCourse, baseSpeed)
        waveResistance == calculateWaveResistance(waveHeight, swellDirection, shipCourse)
        swellResistance == calculateSwellResistance(swellHeight, swellDirection, shipCourse)
        currentEffect == calculateCurrentEffect(currentSpeed, currentDirection, shipCourse)
        totalSpeedImpact ==
          TotalSpeedImpact(currentEffect, windResistance, waveResistance, swellResistance)
        sog == SpeedOverGround(baseSpeed, totalSpeedImpact)
        stwRequired == SpeedThroughWater(baseSpeed, totalSpeedImpact)
        powerIncrease == PowerIncrease(stwRequired, baseSpeed)
        fuelIncrease == JsScale(powerIncrease, 18, 100)
        totalResistance == windResistance.force * 1000
                             + waveResistance.speedLoss
                             + swellResistance.speedLoss
    IN [sog |-> sog,
        stw |-> stwRequired,
        powerIncrease |-> JsMax0(powerIncrease),
        fuelIncrease |-> JsMax0(fuelIncrease),
        totalResistance |-> totalResistance,
        factors |-> [wind |-> windResistance,
                     waves |-> waveResistance,
                     swell |-> swellResistance,
                     current |-> currentEffect,
                     totalSpeedImpact |-> totalSpeedImpact],
        threw |-> FALSE]

-----------------------------------------------------------------------------
(* The travel-time estimator *)

EarthRadiusKm == 6371

\* Math.sin(x / 2) squared, in thousandths, x in degrees: (1 - cos x) / 2
SinHalfSquared(deg) == (1000 - CosMilli(deg)) \div 2

\* 2 * Math.atan2(Math.sqrt(a), Math.sqrt(1 - a)) in degrees, a in thousandths:
\* the angle whose SinHalfSquared is a, interpolated between the multiples of 30
CentralAngle(a) ==
  LET i == CHOOSE k \in 0..5 :
             /\ SinHalfSquared(30 * k) <= a
             /\ (a <= SinHalfSquared(30 * (k + 1)) \/ k = 5)
      lo == SinHalfSquared(30 * i)
      hi == SinHalfSquared(30 * (i + 1))
  IN 30 * i + (30 * (a - lo)) \div (hi - lo)

\* Haversine distance in km between two [lat, lng] points given in degrees
Haversine(waypoint1, waypoint2) ==
  LET lat1 == waypoint1[1]
      lat2 == waypoint2[1]
      dLat == waypoint2[1] - waypoint1[1]
      dLng == waypoint2[2] - waypoint1[2]
      a == SinHalfSquared(dLat)
             + (((CosMilli(lat1) * CosMilli(lat2)) \div 1000) * SinHalfSquared(dLng)) \div 1000
      c == CentralAngle(a)
  IN (((EarthRadiusKm * 31416) \div 180) * c) \div 10000

\* the factor of the statute mile in place of the nautical mile
SpeedKmh_statuteMiles(speed) == ((speed \div 1000) * 1609) \div 1000

\* speed * 1.852: micro-knots to m/h
SpeedKmh(speed) == ((speed \div 1000) * 1852) \div 1000

\* the record returned for a distance in km and a speed in micro-knots:
\* speedKmh in m/h, timeHours in hundredths of an hour, timeMinutes in
\* hundredths of a minute.  No guard on speed: a zero divisor yields Infinity
\* or NaN, a negative one a negative time.  (timeFormatted, a display string,
\* is left out.)
TravelTime(distance, speed) ==
  LET speedKmh == SpeedKmh(speed)
      timeHours == JsDiv(distance * 1000, speedKmh, 100)
      timeMinutes == JsScale(timeHours, 60, 1)
  IN [distance |-> distance,
      speedKmh |-> speedKmh,
      timeHours |-> timeHours,
      timeMinutes |-> timeMinutes,
      threw |-> FALSE]

\* the Haversine distance of the two waypoints, then the time at the speed
calculateTravelTime(waypoint1, waypoint2, speed) ==
  TravelTime(Haversine(waypoint1, waypoint2), speed)

-----------------------------------------------------------------------------
(* Route length: calculateDistance, in its two copies *)

\* the for loop: total after the legs from the (0-based) index i on have been
\* added; distances in km
RECURSIVE DistanceLoop(_, _, _)
DistanceLoop(latLngs, i, total) ==
  IF i < Len(latLngs) - 1
  THEN DistanceLoop(latLngs, i + 1, total + Haversine(latLngs[i + 1], latLngs[i + 2]))
  ELSE total

\* only the two end points are joined
calculateDistance_endpoints(latLngs) ==
  IF Len(latLngs) < 2 THEN 0 ELSE Haversine(latLngs[1], latLngs[Len(latLngs)])

\* client/src/SimpleMap.jsx
calculateDistance(latLngs) == DistanceLoop(latLngs, 0, 0)

\* a lone point is measured from [0, 0]
WorldMap_calculateDistance_fromOrigin(latLngs) ==
  IF Len(latLngs) = 1 THEN Haversine(<<0, 0>>, latLngs[1]) ELSE DistanceLoop(latLngs, 0, 0)

\* client/src/WorldMap.jsx
WorldMap_calculateDistance(latLngs) == DistanceLoop(latLngs, 0, 0)

-----------------------------------------------------------------------------
(* The fuel and route-cost estimators: three copies of calculateFuelConsumption *)
(* and of calculateRouteCost.  shipSpeed and selectedRoute are props of the     *)
(* component the function closes over; they are parameters here.                *)

baseFuelConsumption == 1260   \* kg/h at base speed
fuelPrice == 8                \* 0.8 USD per kg, in tenths
operationalCost == 5000       \* USD per hour
portFees == 15000             \* USD per port call
canalFee == 500000            \* USD, Suez Canal fees

\* weatherData.weather.wind?.speed || 0, in m/s
WindSpeedOf(weatherData) ==
  IF weatherData.weather.wind = Null THEN 0 ELSE weatherData.weather.wind.speed

\* the two wind steps exchanged: the stronger wind gets the smaller factor
WeatherFuelMultiplier_stepsExchanged(weatherData) ==
  IF NoWeatherData(weatherData) THEN 1000
  ELSE
    LET windSpeed == WindSpeedOf(weatherData)
        waveHeight == weatherData.ocean.waveHeight
        afterWind == IF windSpeed > 15 THEN (1000 * 11) \div 10
                     ELSE IF windSpeed > 10 THEN (1000 * 12) \div 10
                     ELSE 1000
    IN IF waveHeight > 30 THEN (afterWind * 125) \div 100
       ELSE IF waveHeight > 20 THEN (afterWind * 115) \div 100
       ELSE afterWind

\* the fuel multiplier, in thousandths: the wind step and the wave step are
\* multiplied.  The text is the same in the three copies of
\* calculateFuelConsumption.
WeatherFuelMultiplier(weatherData) ==
  IF NoWeatherData(weatherData) THEN 1000
  ELSE
    LET windSpeed == WindSpeedOf(weatherData)
        waveHeight == weatherData.ocean.waveHeight
        afterWind == IF windSpeed > 15 THEN (1000 * 12) \div 10
                     ELSE IF windSpeed > 10 THEN (1000 * 11) \div 10
                     ELSE 1000
    IN IF waveHeight > 30 THEN (afterWind * 125) \div 100
       ELSE IF waveHeight > 20 THEN (afterWind * 115) \div 100
       ELSE afterWind

\* the surcharge of 10 % written as the multiplier itself
WeatherCostMultiplier_surchargeOnly(weatherData) ==
  IF NoWeatherData(weatherData) THEN 10
  ELSE
    LET windSpeed == WindSpeedOf(weatherData)
        waveHeight == weatherData.ocean.waveHeight
    IN IF windSpeed > 15 \/ waveHeight > 30 THEN 1 ELSE 10

\* the cost multiplier, in tenths: one step, not compounding.  The text is
\* the same in the three copies of calculateRouteCost.
WeatherCostMultiplier(weatherData) ==
  IF NoWeatherData(weatherData) THEN 10
  ELSE
    LET windSpeed == WindSpeedOf(weatherData)
        waveHeight == weatherData.ocean.waveHeight
    IN IF windSpeed > 15 \/ waveHeight > 30 THEN 11 ELSE 10

\* the floor of the speed ratio at 0.4 in place of 0.5
SimpleMap_SpeedFactor_lowerFloor(weatherSpeed) == Max(400, (weatherSpeed \div 1000) \div 20)

\* client/src/SimpleMap.jsx: Math.max(0.5, weatherSpeed / 20), in thousandths
SimpleMap_SpeedFactor(weatherSpeed) == Max(500, (weatherSpeed \div 1000) \div 20)

\* client/src/SimpleMap.jsx: the base speed is the literal 20
\* weatherSpeed in micro-knots; current in hundredths of kg/h, remaining and
\* total in hundredths of kg; the three factors in thousandths
SimpleMap_calculateFuelConsumption(weatherSpeed, currentWaypointIndex, totalWaypoints, weatherData) ==
  LET remainingWaypoints == totalWaypoints - currentWaypointIndex
      speedFactor == SimpleMap_SpeedFactor(weatherSpeed)
      resistanceFactor == 1000 + ((Abs(weatherSpeed - 20 * Kn) \div 1000) \div 20) \div 2
      weatherFuelMultiplier == WeatherFuelMultiplier(weatherData)
      currentFuelConsumption ==
        (((baseFuelConsumption \div 10) * resistanceFactor) * weatherFuelMultiplier) \div speedFactor
      estimatedRemainingFuel == currentFuelConsumption * remainingWaypoints * 2
  IN [current |-> currentFuelConsumption,
      remaining |-> estimatedRemainingFuel,
      total |-> currentFuelConsumption + estimatedRemainingFuel,
      weatherMultiplier |-> weatherFuelMultiplier,
      speedFactor |-> speedFactor,
      resistanceFactor |-> resistanceFactor]

\* components/ShipSimulation (src/unnamed/part_004)
\* weatherSpeed in micro-knots; current in hundredths of kg/h, remaining and
\* total in hundredths of kg; the three factors in thousandths
ShipSimulation_calculateFuelConsumption(shipSpeed, weatherSpeed, currentWaypointIndex, totalWaypoints, weatherData) ==
  LET remainingWaypoints == totalWaypoints - currentWaypointIndex
      speedFactor == Max(500, (weatherSpeed \div 1000) \div shipSpeed)
      resistanceFactor == 1000 + ((Abs(weatherSpeed - shipSpeed * Kn) \div 1000) \div shipSpeed) \div 2
      weatherFuelMultiplier == WeatherFuelMultiplier(weatherData)
      currentFuelConsumption ==
        (((baseFuelConsumption \div 10) * resistanceFactor) * weatherFuelMultiplier) \div speedFactor
      estimatedRemainingFuel == currentFuelConsumption * remainingWaypoints * 2
  IN [current |-> currentFuelConsumption,
      remaining |-> estimatedRemainingFuel,
      total |-> currentFuelConsumption + estimatedRemainingFuel,
      weatherMultiplier |-> weatherFuelMultiplier,
      speedFactor |-> speedFactor,
      resistanceFactor |-> resistanceFactor]

\* components/RouteCostAnalysis (src/unnamed/part_005)
\* weatherSpeed in micro-knots; current in hundredths of kg/h, remaining and
\* total in hundredths of kg; the three factors in thousandths
RouteCostAnalysis_calculateFuelConsumption(shipSpeed, weatherSpeed, currentWaypointIndex, totalWaypoints, weatherData) ==
  LET remainingWaypoints == totalWaypoints - currentWaypointIndex
      speedFactor == Max(500, (weatherSpeed \div 1000) \div shipSpeed)
      resistanceFactor == 1000 + ((Abs(weatherSpeed - shipSpeed * Kn) \div 1000) \div shipSpeed) \div 2
      weatherFuelMultiplier == WeatherFuelMultiplier(weatherData)
      currentFuelConsumption ==
        (((baseFuelConsumption \div 10) * resistanceFactor) * weatherFuelMultiplier) \div speedFactor
      estimatedRemainingFuel == currentFuelConsumption * remainingWaypoints * 2
  IN [current |-> currentFuelConsumption,
      remaining |-> estimatedRemainingFuel,
      total |-> currentFuelConsumption + estimatedRemainingFuel,
      weatherMultiplier |-> weatherFuelMultiplier,
      speedFactor |-> speedFactor,
      resistanceFactor |-> resistanceFactor]

\* client/src/SimpleMap.jsx: port calls estimated as floor(remaining / 10)
\* every amount in US cents; weatherMultiplier in tenths
SimpleMap_calculateRouteCost(fuelConsumptionArg, currentWaypointIndex, totalWaypoints, weatherData, routeStyle) ==
  LET canalFees == IF routeStyle = "dashed" THEN canalFee * 100 ELSE 0
      remainingWaypoints == totalWaypoints - currentWaypointIndex
      remainingHours == remainingWaypoints * 2
      fuelCost == (fuelConsumptionArg.total * fuelPrice) \div 10
      operationalCostTotal == operationalCost * 100 * remainingHours
      majorPortsRemaining ==
        Max(0, remainingWaypoints \div 10)
      portFeesTotal == majorPortsRemaining * portFees * 100
      canalFeesTotal == canalFees
      weatherCostMultiplier == WeatherCostMultiplier(weatherData)
      baseCost == fuelCost + operationalCostTotal + portFeesTotal + canalFeesTotal
      totalRouteCost == (baseCost * weatherCostMultiplier) \div 10
  IN [fuelCost |-> fuelCost,
      operationalCost |-> operationalCostTotal,
      portFees |-> portFeesTotal,
      canalFees |-> canalFeesTotal,
      weatherMultiplier |-> weatherCostMultiplier,
      baseCost |-> baseCost,
      total |-> totalRouteCost,
      breakdown |-> [fuel |-> fuelCost,
                     operational |-> operationalCostTotal,
                     ports |-> portFeesTotal,
                     canal |-> canalFeesTotal,
                     weather |-> (baseCost * (weatherCostMultiplier - 10)) \div 10]]

\* components/ShipSimulation (src/unnamed/part_004): port calls counted from selectedRoute.ports
\* every amount in US cents; weatherMultiplier in tenths
ShipSimulation_calculateRouteCost(selectedRoute, fuelConsumptionArg, currentWaypointIndex, totalWaypoints, weatherData) ==
  LET canalFees == IF selectedRoute # Null /\ selectedRoute.style = "dashed" THEN canalFee * 100 ELSE 0
      remainingWaypoints == totalWaypoints - currentWaypointIndex
      remainingHours == remainingWaypoints * 2
      fuelCost == (fuelConsumptionArg.total * fuelPrice) \div 10
      operationalCostTotal == operationalCost * 100 * remainingHours
      majorPortsRemaining ==
        IF selectedRoute = Null \/ selectedRoute.ports = Null THEN 0
        ELSE Cardinality({i \in 1..Len(selectedRoute.ports) :
                            /\ i - 1 > currentWaypointIndex
                            /\ selectedRoute.ports[i].type = "major"})
      portFeesTotal == majorPortsRemaining * portFees * 100
      canalFeesTotal == canalFees
      weatherCostMultiplier == WeatherCostMultiplier(weatherData)
      baseCost == fuelCost + operationalCostTotal + portFeesTotal + canalFeesTotal
      totalRouteCost == (baseCost * weatherCostMultiplier) \div 10
  IN [fuelCost |-> fuelCost,
      operationalCost |-> operationalCostTotal,
      portFees |-> portFeesTotal,
      canalFees |-> canalFeesTotal,
      weatherMultiplier |-> weatherCostMultiplier,
      baseCost |-> baseCost,
      total |-> totalRouteCost,
      breakdown |-> [fuel |-> fuelCost,
                     operational |-> operationalCostTotal,
                     ports |-> portFeesTotal,
                     canal |-> canalFeesTotal,
                     weather |-> (baseCost * (weatherCostMultiplier - 10)) \div 10]]

\* components/RouteCostAnalysis (src/unnamed/part_005)
\* every amount in US cents; weatherMultiplier in tenths
RouteCostAnalysis_calculateRouteCost(selectedRoute, fuelConsumptionArg, currentWaypointIndex, totalWaypoints, weatherData) ==
  LET canalFees == IF selectedRoute # Null /\ selectedRoute.style = "dashed" THEN canalFee * 100 ELSE 0
      remainingWaypoints == totalWaypoints - currentWaypointIndex
      remainingHours == remainingWaypoints * 2
      fuelCost == (fuelConsumptionArg.total * fuelPrice) \div 10
      operationalCostTotal == operationalCost * 100 * remainingHours
      majorPortsRemaining ==
        IF selectedRoute = Null \/ selectedRoute.ports = Null THEN 0
        ELSE Cardinality({i \in 1..Len(selectedRoute.ports) :
                            /\ i - 1 > currentWaypointIndex
                            /\ selectedRoute.ports[i].type = "major"})
      portFeesTotal == majorPortsRemaining * portFees * 100
      canalFeesTotal == canalFees
      weatherCostMultiplier == WeatherCostMultiplier(weatherData)
      baseCost == fuelCost + operationalCostTotal + portFeesTotal + canalFeesTotal
      totalRouteCost == (baseCost * weatherCostMultiplier) \div 10
  IN [fuelCost |-> fuelCost,
      operationalCost |-> operationalCostTotal,
      portFees |-> portFeesTotal,
      canalFees |-> canalFeesTotal,
      weatherMultiplier |-> weatherCostMultiplier,
      baseCost |-> baseCost,
      total |-> totalRouteCost,
      breakdown |-> [fuel |-> fuelCost,
                     operational |-> operationalCostTotal,
                     ports |-> portFeesTotal,
                     canal |-> canalFeesTotal,
                     weather |-> (baseCost * (weatherCostMultiplier - 10)) \div 10]]

-----------------------------------------------------------------------------
(* services/weatherService (src/unnamed/part_007): simulated ocean data *)

\* Math.random() draws are in thousandths: 0 .. 999 stands for [0, 1)

\* Math.floor((windDirection + (Math.random() * 60 - 30)) % 360): the
\* remainder keeps the sign of the dividend, Math.floor rounds downwards
SwellDirection(windDirection, draw) ==
  JsRem(windDirection * 1000 + (draw * 60 - 30000), 360000) \div 1000

\* Math.floor(Math.random() * 360)
RandomDirection(draw) == (draw * 360) \div 1000

\* visibility in tenths of a km; a missing weather list is the empty list, as
\* weatherData.weather?.[0]?.main is undefined for both
Visibility(weatherData, rnd) ==
  LET main == IF Len(weatherData.weather) = 0 THEN "" ELSE weatherData.weather[1].main
  IN IF main = "Fog" THEN 10 + (rnd.visibility * 20) \div 1000
     ELSE IF main = "Rain" THEN 50 + (rnd.visibility * 30) \div 1000
     ELSE 100

\* weatherData is the body of the weather API or the fallback's stand-in for
\* it; rnd holds the draws of Math.random() in the order of the calls.
\* Heights in dm, currentSpeed in tenths of a knot, waterTemp in tenths of a
\* degree
generateOceanData(weatherData, rnd) ==
  LET windSpeed == IF weatherData.wind = Null THEN 0 ELSE weatherData.wind.speed
      windDirection == IF weatherData.wind = Null THEN 0 ELSE weatherData.wind.deg
      waveHeight == Max(3, windSpeed * 2 + (rnd.waveHeight * 5) \div 1000)
      swellHeight == Max(2, (waveHeight * 6) \div 10 + (rnd.swellHeight * 3) \div 1000)
      temp == IF weatherData.main = Null \/ weatherData.main.temp = 0 THEN 20
              ELSE weatherData.main.temp
  IN [waveHeight |-> waveHeight,
      swellDirection |-> SwellDirection(windDirection, rnd.swellDirection),
      swellHeight |-> swellHeight,
      currentSpeed |-> 5 + (rnd.currentSpeed * 15) \div 1000,
      currentDirection |-> RandomDirection(rnd.currentDirection),
      waterTemp |-> temp * 10 + (rnd.waterTemp * 20) \div 1000 - 10,
      visibility |-> Visibility(weatherData, rnd)]

\* rnd.windSpeed, rnd.windDirection and rnd.temperature are the three draws
\* of the fallback itself, rnd.ocean the draws of generateOceanData
generateFallbackWeatherData(coordinates, waypointId, rnd) ==
  LET windSpeed == 5 + (rnd.windSpeed * 10) \div 1000
      windDirection == RandomDirection(rnd.windDirection)
      temperature == 15 + (rnd.temperature * 20) \div 1000
      wind == [speed |-> windSpeed, deg |-> windDirection]
  IN [weather |-> [wind |-> wind,
                   main |-> [temp |-> temperature],
                   weather |-> <<[main |-> "Clear"]>>],
      ocean |-> generateOceanData([wind |-> wind,
                                   main |-> [temp |-> temperature],
                                   weather |-> << >>],
                                  rnd.ocean),
      waypointId |-> waypointId,
      coordinates |-> coordinates]

-----------------------------------------------------------------------------
(* services/weatherService (src/unnamed/part_007): the fetches *)

\* `${routeId}-waypoint-${index}`
WaypointId(routeId, index) == <<routeId, "waypoint", index>>

\* a promise of fetchWaypointWeather.  at: "fetch" while the HTTP request is
\* awaited, "json" while the body is awaited, "settled" after; via: the path
\* by which it settled; handled: its then/catch callback has run
Promise(at, status, via, value) ==
  [at |-> at, status |-> status, via |-> via, value |-> value, handled |-> FALSE]

\* the record of a successful response; the timestamp is left out
LiveWeatherData(coordinates, waypointId, body, rnd) ==
  [weather |-> body,
   ocean |-> generateOceanData(body, rnd.ocean),
   waypointId |-> waypointId,
   coordinates |-> coordinates]

\* the call up to its first await: without an API key it returns the
\* fallback, with one it awaits the HTTP response
FetchCalled(key, coordinates, waypointId, rnd) ==
  IF ~key
  THEN Promise("settled", "fulfilled", "no key",
               generateFallbackWeatherData(coordinates, waypointId, rnd))
  ELSE Promise("fetch", "pending", "", None)

\* the catch block throws the error on instead of returning the fallback
ResponseArrived_rethrown(coordinates, waypointId, outcome, rnd) ==
  IF outcome = "throws"
  THEN Promise("settled", "rejected", "exception", None)
  ELSE IF outcome = "not ok"
  THEN Promise("settled", "fulfilled", "not ok",
               generateFallbackWeatherData(coordinates, waypointId, rnd))
  ELSE Promise("json", "pending", "", None)

\* the await of fetch(...) ends: the request throws (caught: fallback), the
\* response is not ok (fallback) or it is ok (the body is awaited)
ResponseArrived(coordinates, waypointId, outcome, rnd) ==
  IF outcome = "throws"
  THEN Promise("settled", "fulfilled", "exception",
               generateFallbackWeatherData(coordinates, waypointId, rnd))
  ELSE IF outcome = "not ok"
  THEN Promise("settled", "fulfilled", "not ok",
               generateFallbackWeatherData(coordinates, waypointId, rnd))
  ELSE Promise("json", "pending", "", None)

\* a body that is not a JSON text: weatherResponse.json() throws
ParseError == [parseError |-> TRUE]

\* the await of weatherResponse.json() ends: the parse throws, or the body is
\* null and generateOceanData throws on weatherData.wind (both caught:
\* fallback), or the live record is returned
BodyArrived(coordinates, waypointId, body, rnd) ==
  IF body = ParseError \/ body = Null
  THEN Promise("settled", "fulfilled", "exception",
               generateFallbackWeatherData(coordinates, waypointId, rnd))
  ELSE Promise("settled", "fulfilled", "live",
               LiveWeatherData(coordinates, waypointId, body, rnd))

\* the entry the .catch callback of fetchRouteWeatherData writes
ErrorMarker(coordinates, waypointId) ==
  [error |-> "Failed to load weather data", waypointId |-> waypointId,
   coordinates |-> coordinates]

\* weatherData[waypointId] = data
Assigned(map, key, value) ==
  [k \in DOMAIN map \cup {key} |-> IF k = key THEN value ELSE map[k]]

\* Promise.any in place of Promise.allSettled
AllSettled_any(ps) == \E i \in DOMAIN ps : ps[i].handled

\* Promise.allSettled(promises): every promise of the list has settled; a
\* promise of the list is the fetch with its callbacks chained
AllSettled(ps) == \A i \in DOMAIN ps : ps[i].handled

-----------------------------------------------------------------------------
(* components/ShipSimulation (src/unnamed/part_004): the stepper *)

Min(a, b) == IF a <= b THEN a ELSE b

\* Math.atan2(y, x) * 180 / Math.PI, on the eight directions of the grid
Atan2Degrees(y, x) ==
  CASE x = 0 /\ y = 0 -> 0
    [] x > 0 /\ y = 0 -> 0
    [] x > 0 /\ y = x -> 45
    [] x = 0 /\ y > 0 -> 90
    [] x < 0 /\ y = -x -> 135
    [] x < 0 /\ y = 0 -> 180
    [] x < 0 /\ y = x -> -135
    [] x = 0 /\ y < 0 -> -90
    [] x > 0 /\ y = -x -> -45

\* the course from waypoint waypointIndex to the next one (to itself at the
\* last waypoint); waypointIndex counts from 0
Course(coordinates, waypointIndex) ==
  LET currentCoord == coordinates[waypointIndex + 1]
      nextCoord == coordinates[Min(waypointIndex + 1, Len(coordinates) - 1) + 1]
  IN Atan2Degrees(nextCoord[2] - currentCoord[2], nextCoord[1] - currentCoord[1])

\* (waypointIndex / (totalWaypoints - 1)) * 100, in whole percent
Progress(waypointIndex, totalWaypoints) == JsDiv(waypointIndex, totalWaypoints - 1, 100)

\* the record preloadWeatherData stores when a fetch rejects
PreloadFallback(coordinates, waypointId) ==
  [weather |-> [wind |-> [speed |-> 5, deg |-> 180], main |-> [temp |-> 20]],
   ocean |-> [waveHeight |-> 5, swellHeight |-> 3, swellDirection |-> 180,
              currentSpeed |-> 10, currentDirection |-> 90, waterTemp |-> 200,
              visibility |-> 100],
   waypointId |-> waypointId,
   coordinates |-> coordinates]

\* what preloadWeatherData stores for a settled fetch: try / catch
PreloadEntry(promise, coordinates, waypointId) ==
  IF promise.status = "fulfilled" THEN promise.value
  ELSE PreloadFallback(coordinates, waypointId)

\* the loop stops after the first waypoint
PreloadFinished_afterFirst(index, totalWaypoints) == ~(index < 1)

\* the for loop of preloadWeatherData ends: !(index < coordinates.length)
PreloadFinished(index, totalWaypoints) == ~(index < totalWaypoints)

\* the completion test is one tick late
RouteCompleted_late(currentWaypoint, totalWaypoints) ==
  currentWaypoint > totalWaypoints - 1

\* the first test of the timer callback
RouteCompleted(currentWaypoint, totalWaypoints) ==
  currentWaypoint >= totalWaypoints - 1

\* one call of startSimulation: the closure of the render it was clicked in
\* (selectedRoute, shipSpeed, currentWeatherAffectedSpeed), the locals of
\* preloadWeatherData (index, newWaypointData) and of startSimulation
\* (currentWaypoint, the timer).  at: "prefetch" while a fetch is awaited,
\* "stepping" from setInterval on; interval: "none", "active", "cleared".
\* calculated, positioned and steps record what the call did: the indices
\* passed to calculateWaypointSpeed, the values passed to setShipPosition, and
\* for each step the table it read
NewRun(selectedRoute, shipSpeed, c) ==
  [at |-> "prefetch",
   selectedRoute |-> selectedRoute,
   shipSpeed |-> shipSpeed,
   currentWeatherAffectedSpeed |-> c.currentWeatherAffectedSpeed,
   index |-> 0,
   newWaypointData |-> EmptyObject,
   currentWaypoint |-> 0,
   interval |-> "none",
   calculated |-> << >>,
   positioned |-> <<0>>,
   steps |-> << >>]

\* the id setInterval returned to run r
TimerOf(r) == [timer |-> r]

\* clearInterval(ref): clearing a timer that has ended changes nothing
ClearInterval(rs, ref) ==
  IF ref = Null \/ rs[ref.timer].interval # "active" THEN rs
  ELSE [rs EXCEPT ![ref.timer].interval = "cleared"]

\* the cleanup of the effect on [simulationIntervalRef]: it runs with the
\* previous value when the value changes
EffectCleanup(rs, previous, next) ==
  IF previous # next THEN ClearInterval(rs, previous) ELSE rs

\* calculateWaypointSpeed(waypointIndex, weatherDataToUse) of a run's closure:
\* the component state and the parent after it.  The table is always passed,
\* so dataToUse is the table of the call
CalculateWaypointSpeed(c, p, run, waypointIndex, dataToUse) ==
  LET selectedRoute == run.selectedRoute
      totalWaypoints == Len(selectedRoute.coordinates)
      waypointId == WaypointId(selectedRoute.id, waypointIndex)
      waypointInfo == IF waypointId \in DOMAIN dataToUse THEN dataToUse[waypointId]
                      ELSE Null
      course == Course(selectedRoute.coordinates, waypointIndex)
      weatherSpeed == calculateWeatherAffectedSpeed(run.shipSpeed, waypointInfo, course)
      consumption ==
        ShipSimulation_calculateFuelConsumption(run.shipSpeed, weatherSpeed.sog,
                                                waypointIndex, totalWaypoints,
                                                waypointInfo)
      cost == ShipSimulation_calculateRouteCost(selectedRoute, consumption, waypointIndex,
                                                totalWaypoints, waypointInfo)
  IN IF ~NoWeatherData(waypointInfo)
     THEN [component |-> [c EXCEPT !.currentWeatherAffectedSpeed = weatherSpeed.sog,
                                   !.currentWaypointWeather = waypointInfo,
                                   !.currentFuelConsumption = consumption,
                                   !.currentRouteCost = cost],
           parent |-> [updates |-> p.updates + 1,
                       last |-> [isRunning |-> TRUE,
                                 position |-> waypointIndex,
                                 progress |-> Progress(waypointIndex, totalWaypoints),
                                 weatherSpeed |-> weatherSpeed.sog,
                                 weatherData |-> waypointInfo,
                                 course |-> course,
                                 fuelConsumption |-> consumption,
                                 routeCost |-> cost]]]
     ELSE [component |-> [c EXCEPT !.currentWeatherAffectedSpeed = run.shipSpeed * Kn,
                                   !.currentWaypointWeather = Null],
           parent |-> p]

\* the completion reported with the flag still set
CompletionUpdate_stillRunning(run) ==
  [isRunning |-> TRUE,
   position |-> run.currentWaypoint,
   progress |-> Fin(100),
   weatherSpeed |-> run.currentWeatherAffectedSpeed]

\* the update the timer callback sends when the route is completed; the
\* speed is the one its closure captured
CompletionUpdate(run) ==
  [isRunning |-> FALSE,
   position |-> run.currentWaypoint,
   progress |-> Fin(100),
   weatherSpeed |-> run.currentWeatherAffectedSpeed]

\* the run after a step: what it calculated and the table it read
Stepped(run, waypointIndex, dataToUse) ==
  [run EXCEPT !.calculated = Append(@, waypointIndex),
              !.steps = Append(@, [waypoint |-> waypointIndex,
                                   table |-> dataToUse,
                                   fetched |-> run.index])]

-----------------------------------------------------------------------------
(* Inputs.  Each specification draws the inputs of one call in its initial  *)
(* state and its actions apply the function to them.                        *)

MaxBaseSpeed == 30      \* knots
MaxWindSpeed == 20      \* m/s
MaxWaveHeight == 40     \* dm
MaxWaypoints == 3       \* waypoints of a short route
MaxPoints == 3          \* points of a coordinate sequence
MaxClicks == 4          \* button clicks on the simulation panel

\* base speeds: negative, zero, below the 5 kn floor, and the slider's range
BaseSpeeds == {-10, 0, 3, 20, MaxBaseSpeed}

\* courses: the stepper derives them with atan2, so they lie in (-180, 180]
Courses == {-90, 0, 30, 90, 180}

\* every direction on the 30-degree grid
Directions == {30 * k : k \in 0..11}

WindSpeeds == {0, 10, MaxWindSpeed}
WaveHeights == {0, 15, MaxWaveHeight}
SwellHeights == {0, 10}
CurrentSpeeds == {0, 20}

WeatherObjects ==
  {Null, [wind |-> Null]}
    \cup {[wind |-> [speed |-> s, deg |-> d]] : s \in WindSpeeds, d \in {0, 90, 180, 270}}

OceanObjects ==
  {Null}
    \cup [waveHeight : WaveHeights,
          swellHeight : SwellHeights,
          swellDirection : {0, 120, 180, 270},
          currentSpeed : CurrentSpeeds,
          currentDirection : {0, 90, 180}]

\* a waypoint's record as fetchWaypointWeather builds it, or none at all
WeatherData == {Null} \cup [weather : WeatherObjects, ocean : OceanObjects]

SpeedFunctions ==
  {"calculateWeatherAffectedSpeed", "calculateWindResistance", "calculateWaveResistance",
   "calculateSwellResistance", "calculateCurrentEffect"}

SpeedArgs(f) ==
  CASE f = "calculateWeatherAffectedSpeed" ->
         [baseSpeed : BaseSpeeds, weatherData : WeatherData, shipCourse : Courses]
    [] f = "calculateWindResistance" ->
         [windSpeed : WindSpeeds, windDirection : Directions, shipCourse : Courses,
          shipSpeed : BaseSpeeds]
    [] f = "calculateWaveResistance" ->
         [waveHeight : WaveHeights, waveDirection : Directions, shipCourse : Courses]
    [] f = "calculateSwellResistance" ->
         [swellHeight : WaveHeights, swellDirection : Directions, shipCourse : Courses]
    [] f = "calculateCurrentEffect" ->
         [currentSpeed : CurrentSpeeds, currentDirection : Directions, shipCourse : Courses]

-----------------------------------------------------------------------------
(* Spec: the speed composer and the four resistance calculators *)

Init ==
  /\ pc = "ready"
  /\ fn \in SpeedFunctions
  /\ args \in SpeedArgs(fn)
  /\ result = None
  /\ fuelConsumption = None
  /\ routeCost = None
  /\ BackgroundIdle

Return(value) ==
  /\ pc = "ready"
  /\ pc' = "returned"
  /\ result' = value
  /\ UNCHANGED <<fn, args, fuelConsumption, routeCost>>
  /\ UNCHANGED backgroundVars

CallWeatherAffectedSpeed ==
  /\ fn = "calculateWeatherAffectedSpeed"
  /\ Return(calculateWeatherAffectedSpeed(args.baseSpeed, args.weatherData, args.shipCourse))

CallWindResistance ==
  /\ fn = "calculateWindResistance"
  /\ Return(calculateWindResistance(args.windSpeed, args.windDirection, args.shipCourse,
                                    args.shipSpeed))

CallWaveResistance ==
  /\ fn = "calculateWaveResistance"
  /\ Return(calculateWaveResistance(args.waveHeight, args.waveDirection, args.shipCourse))

CallSwellResistance ==
  /\ fn = "calculateSwellResistance"
  /\ Return(calculateSwellResistance(args.swellHeight, args.swellDirection, args.shipCourse))

CallCurrentEffect ==
  /\ fn = "calculateCurrentEffect"
  /\ Return(calculateCurrentEffect(args.currentSpeed, args.currentDirection, args.shipCourse))

Next ==
  \/ CallWeatherAffectedSpeed
  \/ CallWindResistance
  \/ CallWaveResistance
  \/ CallSwellResistance
  \/ CallCurrentEffect

Spec == Init /\ [][Next]_vars

-----------------------------------------------------------------------------
(* FuelSpec: the fuel and route-cost estimators, in their three copies *)

Copies == {"SimpleMap", "ShipSimulation", "RouteCostAnalysis"}

\* the ship-speed slider runs from 5 to 30 knots
ShipSpeeds == {5, 20, MaxBaseSpeed}

\* speeds over ground handed to the fuel estimator, in micro-knots
WeatherSpeeds == {0, 10 * Kn, 20 * Kn, 22 * Kn}

\* snapshots on both sides of every threshold of the multipliers
FuelWeatherData ==
  {Null, [weather |-> Null, ocean |-> Null], [weather |-> [wind |-> Null], ocean |-> Null]}
    \cup {[weather |-> [wind |-> w],
           ocean |-> [waveHeight |-> h, swellHeight |-> 0, swellDirection |-> 0,
                      currentSpeed |-> 0, currentDirection |-> 0]] :
            w \in {Null} \cup {[speed |-> v, deg |-> 0] : v \in {0, 10, 11, 15, 16, MaxWindSpeed}},
            h \in {0, 20, 21, 30, 31, MaxWaveHeight}}

Routes ==
  [style : {"solid", "dashed"},
   ports : {Null, <<[type |-> "major"], [type |-> "minor"], [type |-> "major"]>>}]

FuelArgs ==
  {a \in [shipSpeed : ShipSpeeds,
          weatherSpeed : WeatherSpeeds,
          currentWaypointIndex : 0..(MaxWaypoints - 1),
          totalWaypoints : 1..MaxWaypoints,
          weatherData : FuelWeatherData,
          selectedRoute : Routes] :
     a.currentWaypointIndex < a.totalWaypoints}

FuelInit ==
  /\ pc = "ready"
  /\ fn \in Copies
  /\ args \in FuelArgs
  /\ result = None
  /\ fuelConsumption = None
  /\ routeCost = None
  /\ BackgroundIdle

\* the copy's calculateFuelConsumption on the inputs a
FuelConsumptionOf(copy, a) ==
  CASE copy = "SimpleMap" ->
         SimpleMap_calculateFuelConsumption(
           a.weatherSpeed, a.currentWaypointIndex, a.totalWaypoints, a.weatherData)
    [] copy = "ShipSimulation" ->
         ShipSimulation_calculateFuelConsumption(
           a.shipSpeed, a.weatherSpeed, a.currentWaypointIndex, a.totalWaypoints, a.weatherData)
    [] copy = "RouteCostAnalysis" ->
         RouteCostAnalysis_calculateFuelConsumption(
           a.shipSpeed, a.weatherSpeed, a.currentWaypointIndex, a.totalWaypoints, a.weatherData)

CallFuelConsumption(copy) ==
  /\ pc = "ready"
  /\ fn = copy
  /\ fuelConsumption' = FuelConsumptionOf(copy, args)
  /\ pc' = "fuel"
  /\ UNCHANGED <<fn, args, result, routeCost>>
  /\ UNCHANGED backgroundVars

SimpleMapFuel == CallFuelConsumption("SimpleMap")
ShipSimulationFuel == CallFuelConsumption("ShipSimulation")
RouteCostAnalysisFuel == CallFuelConsumption("RouteCostAnalysis")

\* the waypoint's snapshot is fetched again and the estimate is computed anew
\* with the other inputs as they were
RefreshedFuel ==
  /\ pc = "fuel"
  /\ \E w \in FuelWeatherData :
       /\ args' = [args EXCEPT !.weatherData = w]
       /\ fuelConsumption' = FuelConsumptionOf(fn, args')
  /\ UNCHANGED <<pc, fn, result, routeCost>>
  /\ UNCHANGED backgroundVars

SimpleMapCost ==
  /\ pc = "fuel"
  /\ fn = "SimpleMap"
  /\ routeCost' = SimpleMap_calculateRouteCost(
                    fuelConsumption, args.currentWaypointIndex, args.totalWaypoints,
                    args.weatherData, args.selectedRoute.style)
  /\ pc' = "cost"
  /\ UNCHANGED <<fn, args, result, fuelConsumption>>
  /\ UNCHANGED backgroundVars

ShipSimulationCost ==
  /\ pc = "fuel"
  /\ fn = "ShipSimulation"
  /\ routeCost' = ShipSimulation_calculateRouteCost(
                    args.selectedRoute, fuelConsumption, args.currentWaypointIndex,
                    args.totalWaypoints, args.weatherData)
  /\ pc' = "cost"
  /\ UNCHANGED <<fn, args, result, fuelConsumption>>
  /\ UNCHANGED backgroundVars

RouteCostAnalysisCost ==
  /\ pc = "fuel"
  /\ fn = "RouteCostAnalysis"
  /\ routeCost' = RouteCostAnalysis_calculateRouteCost(
                    args.selectedRoute, fuelConsumption, args.currentWaypointIndex,
                    args.totalWaypoints, args.weatherData)
  /\ pc' = "cost"
  /\ UNCHANGED <<fn, args, result, fuelConsumption>>
  /\ UNCHANGED backgroundVars

FuelNext ==
  \/ SimpleMapFuel
  \/ ShipSimulationFuel
  \/ RouteCostAnalysisFuel
  \/ RefreshedFuel
  \/ SimpleMapCost
  \/ ShipSimulationCost
  \/ RouteCostAnalysisCost

FuelSpec == FuelInit /\ [][FuelNext]_vars

-----------------------------------------------------------------------------
(* AdvanceSpec: the fuel and route-cost estimates at the waypoints of one *)
(* route, from the first one on, with every other input as it was         *)

LongRoute == 21         \* waypoints of a route with port calls by the rule of ten

\* snapshots below and above the thresholds of the multipliers
AdvanceWeatherData ==
  {Null} \cup {[weather |-> [wind |-> [speed |-> v, deg |-> 0]],
                ocean |-> [waveHeight |-> h, swellHeight |-> 0, swellDirection |-> 0,
                           currentSpeed |-> 0, currentDirection |-> 0]] :
                 v \in {0, 11, MaxWindSpeed}, h \in {0, 21, MaxWaveHeight}}

AdvanceArgs ==
  [shipSpeed : ShipSpeeds,
   weatherSpeed : WeatherSpeeds,
   currentWaypointIndex : {0},
   totalWaypoints : {1, MaxWaypoints, LongRoute},
   weatherData : AdvanceWeatherData,
   selectedRoute : Routes]

\* the copy's calculateRouteCost on the inputs a and the estimate fuel
RouteCostOf(copy, a, fuel) ==
  CASE copy = "SimpleMap" ->
         SimpleMap_calculateRouteCost(
           fuel, a.currentWaypointIndex, a.totalWaypoints, a.weatherData,
           a.selectedRoute.style)
    [] copy = "ShipSimulation" ->
         ShipSimulation_calculateRouteCost(
           a.selectedRoute, fuel, a.currentWaypointIndex, a.totalWaypoints, a.weatherData)
    [] copy = "RouteCostAnalysis" ->
         RouteCostAnalysis_calculateRouteCost(
           a.selectedRoute, fuel, a.currentWaypointIndex, a.totalWaypoints, a.weatherData)

\* the two estimates made with the number of waypoints passed in the place of
\* the waypoint's index counted down
EstimatesAt_waypointsLeft(copy, a) ==
  LET b == [a EXCEPT !.currentWaypointIndex = a.totalWaypoints - a.currentWaypointIndex]
      fuel == FuelConsumptionOf(copy, b)
  IN [fuelConsumption |-> fuel, routeCost |-> RouteCostOf(copy, b, fuel)]

\* the two estimates of a waypoint, as each copy's caller makes them: the fuel
\* estimate, then the cost estimate from it, on the same index and snapshot
EstimatesAt(copy, a) ==
  LET fuel == FuelConsumptionOf(copy, a)
  IN [fuelConsumption |-> fuel, routeCost |-> RouteCostOf(copy, a, fuel)]

AdvanceInit ==
  /\ pc = "ready"
  /\ fn \in Copies
  /\ args \in AdvanceArgs
  /\ result = None
  /\ fuelConsumption = None
  /\ routeCost = None
  /\ BackgroundIdle

\* the estimates at the first waypoint
EstimateAtStart ==
  /\ pc = "ready"
  /\ fuelConsumption' = EstimatesAt(fn, args).fuelConsumption
  /\ routeCost' = EstimatesAt(fn, args).routeCost
  /\ pc' = "cost"
  /\ UNCHANGED <<fn, args, result>>
  /\ UNCHANGED backgroundVars

\* the estimates at a later waypoint j of the route
Advance(j) ==
  /\ pc = "cost"
  /\ args.currentWaypointIndex < j
  /\ j <= args.totalWaypoints - 1
  /\ args' = [args EXCEPT !.currentWaypointIndex = j]
  /\ fuelConsumption' = EstimatesAt(fn, args').fuelConsumption
  /\ routeCost' = EstimatesAt(fn, args').routeCost
  /\ UNCHANGED <<pc, fn, result>>
  /\ UNCHANGED backgroundVars

AdvanceNext ==
  \/ EstimateAtStart
  \/ \E j \in 1..(args.totalWaypoints - 1) : Advance(j)

AdvanceSpec == AdvanceInit /\ [][AdvanceNext]_vars

-----------------------------------------------------------------------------
(* TimeSpec: the travel-time estimator *)

\* [lat, lng] points on the 30-degree grid
Waypoints == {<<lat, lng>> : lat \in {0, 30, 60}, lng \in {0, 30, 90}}

\* speeds in micro-knots: negative, zero and positive
TravelSpeeds == {b * Kn : b \in BaseSpeeds \cup {10}}

TimeInit ==
  /\ pc = "ready"
  /\ fn = "calculateTravelTime"
  /\ args \in [waypoint1 : Waypoints, waypoint2 : Waypoints, speed : TravelSpeeds]
  /\ result = None
  /\ fuelConsumption = None
  /\ routeCost = None
  /\ BackgroundIdle

CallTravelTime ==
  /\ fn = "calculateTravelTime"
  /\ Return(calculateTravelTime(args.waypoint1, args.waypoint2, args.speed))

TimeNext == CallTravelTime

TimeSpec == TimeInit /\ [][TimeNext]_vars

-----------------------------------------------------------------------------
(* DistanceSpec: the route-length function of the two map components *)

MapComponents == {"SimpleMap", "WorldMap"}

\* coordinate sequences of 0 to MaxPoints points
CoordinateSequences ==
  UNION {[1..n -> Waypoints] : n \in 0..MaxPoints}

DistanceInit ==
  /\ pc = "ready"
  /\ fn \in MapComponents
  /\ args \in [latLngs : CoordinateSequences]
  /\ result = None
  /\ fuelConsumption = None
  /\ routeCost = None
  /\ BackgroundIdle

SimpleMapDistance ==
  /\ fn = "SimpleMap"
  /\ Return(calculateDistance(args.latLngs))

WorldMapDistance ==
  /\ fn = "WorldMap"
  /\ Return(WorldMap_calculateDistance(args.latLngs))

DistanceNext ==
  \/ SimpleMapDistance
  \/ WorldMapDistance

DistanceSpec == DistanceInit /\ [][DistanceNext]_vars

-----------------------------------------------------------------------------
(* OceanSpec: the generators of simulated ocean data and fallback weather *)

\* draws of Math.random(), in thousandths
Draws == {0, 250, 500, 999}
EndDraws == {0, 999}

OceanDraws ==
  [waveHeight : EndDraws, swellHeight : EndDraws, swellDirection : Draws,
   currentSpeed : EndDraws, currentDirection : EndDraws, waterTemp : {500},
   visibility : {0}]

\* wind directions the weather API reports, 0 .. 360
ReportedDirections == {0, 10, 29, 30, 180, 330, 359, 360}

\* bodies of the weather API: wind, main and weather may be missing
ApiBodies ==
  [wind : {Null} \cup [speed : {0, 10}, deg : ReportedDirections],
   main : {Null, [temp |-> 25]},
   weather : {<< >>, <<[main |-> "Rain"]>>, <<[main |-> "Fog"]>>}]

OceanInit ==
  /\ pc = "ready"
  /\ fn \in {"generateOceanData", "generateFallbackWeatherData"}
  /\ args \in IF fn = "generateOceanData"
              THEN [weatherData : ApiBodies, rnd : OceanDraws]
              ELSE [coordinates : {<<0, 30>>}, waypointId : {0},
                    rnd : [windSpeed : EndDraws, windDirection : {0, 27, 999},
                           temperature : {500}, ocean : OceanDraws]]
  /\ result = None
  /\ fuelConsumption = None
  /\ routeCost = None
  /\ BackgroundIdle

CallGenerateOceanData ==
  /\ fn = "generateOceanData"
  /\ Return(generateOceanData(args.weatherData, args.rnd))

CallGenerateFallbackWeatherData ==
  /\ fn = "generateFallbackWeatherData"
  /\ Return(generateFallbackWeatherData(args.coordinates, args.waypointId, args.rnd))

OceanNext ==
  \/ CallGenerateOceanData
  \/ CallGenerateFallbackWeatherData

OceanSpec == OceanInit /\ [][OceanNext]_vars

-----------------------------------------------------------------------------
(* WeatherSpec: fetchRouteWeatherData and its concurrent fetches *)

\* the route whose first waypoints are fetched
RouteCoordinates ==
  [i \in 1..MaxWaypoints |-> <<30 * ((i - 1) % 3), 30 * (i % 2)>>]

\* the draws of one fallback record: all lowest, or all highest
FetchDraws ==
  {[windSpeed |-> d, windDirection |-> d, temperature |-> d,
    ocean |-> [waveHeight |-> d, swellHeight |-> d, swellDirection |-> d,
               currentSpeed |-> d, currentDirection |-> d, waterTemp |-> d,
               visibility |-> d]] : d \in EndDraws}

\* what weatherResponse.json() can end with
JsonOutcomes ==
  {ParseError, Null,
   [wind |-> Null, main |-> Null, weather |-> << >>],
   [wind |-> [speed |-> 10, deg |-> 10], main |-> [temp |-> 25],
    weather |-> <<[main |-> "Rain"]>>]}

WeatherInit ==
  /\ pc = "ready"
  /\ fn = "fetchRouteWeatherData"
  /\ args \in [waypoints : {SubSeq(RouteCoordinates, 1, n) : n \in 0..MaxWaypoints},
               routeId : {1}]
  /\ result = None
  /\ fuelConsumption = None
  /\ routeCost = None
  /\ apiKey \in BOOLEAN
  /\ promises = << >>
  /\ routeWeatherData = EmptyObject
  /\ written = << >>
  /\ component = MountedComponent
  /\ runs = << >>
  /\ parent = NoUpdates
  /\ clicks = 0
  /\ cancelled = FALSE
  /\ loadingWaypoints = EmptyObject
  /\ waypointData = EmptyObject
  /\ fetches = << >>

\* waypoints.forEach(...): every fetch is called, none is awaited
CallFetchRouteWeatherData ==
  /\ pc = "ready"
  /\ \E rnd \in [1..Len(args.waypoints) -> FetchDraws] :
       promises' = [i \in 1..Len(args.waypoints) |->
                      FetchCalled(apiKey, args.waypoints[i],
                                  WaypointId(args.routeId, i - 1), rnd[i])]
  /\ pc' = "pending"
  /\ UNCHANGED <<fn, args, result, fuelConsumption, routeCost, apiKey,
                 routeWeatherData, written, simVars, mapVars>>

\* the HTTP request of waypoint i ends
ResponseArrives(i) ==
  /\ promises[i].at = "fetch"
  /\ \E outcome \in {"throws", "not ok", "ok"}, rnd \in FetchDraws :
       promises' = [promises EXCEPT ![i] =
                      ResponseArrived(args.waypoints[i], WaypointId(args.routeId, i - 1),
                                      outcome, rnd)]
  /\ UNCHANGED <<pc, fn, args, result, fuelConsumption, routeCost, apiKey,
                 routeWeatherData, written, simVars, mapVars>>

\* the body of waypoint i's response ends
BodyArrives(i) ==
  /\ promises[i].at = "json"
  /\ \E body \in JsonOutcomes, rnd \in FetchDraws :
       promises' = [promises EXCEPT ![i] =
                      BodyArrived(args.waypoints[i], WaypointId(args.routeId, i - 1),
                                  body, rnd)]
  /\ UNCHANGED <<pc, fn, args, result, fuelConsumption, routeCost, apiKey,
                 routeWeatherData, written, simVars, mapVars>>

\* .then(data => ...) of a fulfilled fetch, .catch(error => ...) of a
\* rejected one: the entry of the callback's own waypointId is assigned
CallbackRuns(i) ==
  /\ promises[i].at = "settled"
  /\ ~promises[i].handled
  /\ LET waypointId == WaypointId(args.routeId, i - 1)
         entry == IF promises[i].status = "fulfilled" THEN promises[i].value
                  ELSE ErrorMarker(args.waypoints[i], waypointId)
     IN /\ routeWeatherData' = Assigned(routeWeatherData, waypointId, entry)
        /\ written' = Append(written, waypointId)
  /\ promises' = [promises EXCEPT ![i].handled = TRUE]
  /\ UNCHANGED <<pc, fn, args, result, fuelConsumption, routeCost, apiKey, simVars, mapVars>>

\* await Promise.allSettled(promises); return weatherData
RouteWeatherResolves ==
  /\ pc = "pending"
  /\ AllSettled(promises)
  /\ result' = routeWeatherData
  /\ pc' = "returned"
  /\ UNCHANGED <<fn, args, fuelConsumption, routeCost, backgroundVars>>

WeatherNext ==
  \/ CallFetchRouteWeatherData
  \/ \E i \in DOMAIN promises : ResponseArrives(i)
  \/ \E i \in DOMAIN promises : BodyArrives(i)
  \/ \E i \in DOMAIN promises : CallbackRuns(i)
  \/ RouteWeatherResolves

WeatherSpec == WeatherInit /\ [][WeatherNext]_vars

-----------------------------------------------------------------------------
(* SimSpec: the stepper of ShipSimulation, its buttons and its timer *)

\* the route of the simulation: a staircase on the 30-degree grid, so that
\* every course is a multiple of 90
SimulationCoordinates ==
  [i \in 1..MaxWaypoints |-> <<30 * (i \div 2), 30 * ((i - 1) \div 2)>>]

SimulationRoutes ==
  {[id |-> 1, coordinates |-> SubSeq(SimulationCoordinates, 1, n),
    style |-> "solid", ports |-> Null] : n \in 1..MaxWaypoints}

\* the draws of a fetch: every Math.random() at 0.5
SimulationDraws ==
  [windSpeed |-> 500, windDirection |-> 500, temperature |-> 500,
   ocean |-> [waveHeight |-> 500, swellHeight |-> 500, swellDirection |-> 500,
              currentSpeed |-> 500, currentDirection |-> 500, waterTemp |-> 500,
              visibility |-> 500]]

\* the body of a successful response
SimulationBody ==
  [wind |-> [speed |-> 10, deg |-> 30], main |-> [temp |-> 25],
   weather |-> <<[main |-> "Rain"]>>]

\* the promise fetchWaypointWeather settles with.  responses is the state of
\* the weather API during the session: "throws" (fetch fails, the catch block
\* returns the fallback) or "ok" (the live record); without a key no request
\* is made
SettledFetches(key, responses, coordinates, waypointId) ==
  IF ~key
  THEN {FetchCalled(key, coordinates, waypointId, SimulationDraws)}
  ELSE IF responses = "throws"
  THEN {ResponseArrived(coordinates, waypointId, "throws", SimulationDraws)}
  ELSE {BodyArrived(coordinates, waypointId, SimulationBody, SimulationDraws)}

SimInit ==
  /\ pc = "mounted"
  /\ fn = "ShipSimulation"
  /\ apiKey \in BOOLEAN
  /\ args \in [selectedRoute : SimulationRoutes, shipSpeed : {20},
               responses : IF apiKey THEN {"throws", "ok"} ELSE {"none"}]
  /\ result = None
  /\ fuelConsumption = None
  /\ routeCost = None
  /\ promises = << >>
  /\ routeWeatherData = EmptyObject
  /\ written = << >>
  /\ component = MountedComponent
  /\ runs = << >>
  /\ parent = NoUpdates
  /\ clicks = 0
  /\ cancelled = FALSE
  /\ loadingWaypoints = EmptyObject
  /\ waypointData = EmptyObject
  /\ fetches = << >>

\* without an API key every await of the prefetch resumes in a microtask: no
\* click and no timer callback runs before the prefetch has ended
MicrotasksPending == ~apiKey /\ \E r \in DOMAIN runs : runs[r].at = "prefetch"

\* the Start button (disabled while isSimulationRunning): startSimulation up
\* to the first await of preloadWeatherData
StartClicked ==
  /\ clicks < MaxClicks
  /\ ~MicrotasksPending
  /\ ~component.isSimulationRunning
  /\ component' = [component EXCEPT !.isSimulationRunning = TRUE,
                                    !.shipPosition = 0,
                                    !.simulationProgress = Fin(0),
                                    !.totalTravelTime = Fin(0),
                                    !.currentWeatherAffectedSpeed = 0]
  /\ runs' = Append(runs, NewRun(args.selectedRoute, args.shipSpeed, component))
  /\ clicks' = clicks + 1
  /\ cancelled' = FALSE
  /\ UNCHANGED <<pc, fn, args, result, fuelConsumption, routeCost, apiKey, promises,
                 routeWeatherData, written, parent, mapVars>>

\* the runs after the fetch run r awaits has settled with promise: the entry
\* is stored, and after the last one the first step is calculated and
\* setInterval is called; ref is simulationIntervalRef before the call
Prefetched(rs, r, promise, ref) ==
  LET run == rs[r]
      coordinates == run.selectedRoute.coordinates
      waypointId == WaypointId(run.selectedRoute.id, run.index)
      table == Assigned(run.newWaypointData, waypointId,
                        PreloadEntry(promise, coordinates[run.index + 1], waypointId))
      fetched == [run EXCEPT !.index = run.index + 1, !.newWaypointData = table]
  IN IF PreloadFinished(run.index + 1, Len(coordinates))
     THEN EffectCleanup([rs EXCEPT ![r] = [Stepped(fetched, 0, table) EXCEPT
                                             !.at = "stepping",
                                             !.interval = "active"]],
                        ref, TimerOf(r))
     ELSE [rs EXCEPT ![r] = fetched]

\* the run after one call of its timer callback
Ticked(run) ==
  LET currentWaypoint == run.currentWaypoint + 1
  IN IF RouteCompleted(run.currentWaypoint, Len(run.selectedRoute.coordinates))
     THEN [run EXCEPT !.interval = "cleared", !.at = "done"]
     ELSE [Stepped(run, currentWaypoint, run.newWaypointData) EXCEPT
             !.currentWaypoint = currentWaypoint,
             !.positioned = Append(@, currentWaypoint)]

\* the fetch run r awaits settles: its entry is stored, and the next fetch is
\* called; after the last one preloadWeatherData returns and startSimulation
\* goes on to the first step, setInterval and setSimulationIntervalRef
FetchSettles(r) ==
  /\ runs[r].at = "prefetch"
  /\ LET run == runs[r]
         coordinates == run.selectedRoute.coordinates
         coord == coordinates[run.index + 1]
         waypointId == WaypointId(run.selectedRoute.id, run.index)
     IN \E promise \in SettledFetches(apiKey, args.responses, coord, waypointId) :
          LET table == Assigned(run.newWaypointData, waypointId,
                                PreloadEntry(promise, coord, waypointId))
              fetched == [run EXCEPT !.index = run.index + 1, !.newWaypointData = table]
              after == CalculateWaypointSpeed([component EXCEPT !.waypointData = table],
                                              parent, fetched, 0, table)
          IN /\ runs' = Prefetched(runs, r, promise, component.simulationIntervalRef)
             /\ IF PreloadFinished(run.index + 1, Len(coordinates))
                THEN /\ component' = [after.component EXCEPT
                                        !.simulationIntervalRef = TimerOf(r)]
                     /\ parent' = after.parent
                ELSE UNCHANGED <<component, parent>>
  /\ UNCHANGED <<pc, fn, args, result, fuelConsumption, routeCost, apiKey, promises,
                 routeWeatherData, written, clicks, cancelled, mapVars>>

\* the timer of run r fires: the callback of setInterval
Tick(r) ==
  /\ runs[r].interval = "active"
  /\ ~MicrotasksPending
  /\ LET run == runs[r]
         coordinates == run.selectedRoute.coordinates
         totalWaypoints == Len(coordinates)
         currentWaypoint == run.currentWaypoint + 1
         after == CalculateWaypointSpeed(component, parent, run, currentWaypoint,
                                         run.newWaypointData)
         speed == IF run.currentWeatherAffectedSpeed # 0
                  THEN run.currentWeatherAffectedSpeed
                  ELSE run.shipSpeed * Kn
         segmentTime == calculateTravelTime(coordinates[currentWaypoint + 1],
                                            coordinates[currentWaypoint + 2], speed)
         timed == IF currentWaypoint < totalWaypoints - 1
                  THEN [after.component EXCEPT
                          !.currentSegmentTime = segmentTime.timeHours,
                          !.totalTravelTime = JsAdd(@, segmentTime.timeHours)]
                  ELSE after.component
     IN IF RouteCompleted(run.currentWaypoint, totalWaypoints)
        THEN /\ runs' = [runs EXCEPT ![r] = Ticked(run)]
             /\ component' = [component EXCEPT !.isSimulationRunning = FALSE,
                                               !.simulationProgress = Fin(100)]
             /\ parent' = [updates |-> parent.updates + 1,
                           last |-> CompletionUpdate(run)]
        ELSE /\ runs' = [runs EXCEPT ![r] = Ticked(run)]
             /\ component' = [timed EXCEPT
                                !.shipPosition = currentWaypoint,
                                !.simulationProgress = Progress(currentWaypoint,
                                                                totalWaypoints)]
             /\ parent' = after.parent
  /\ UNCHANGED <<pc, fn, args, result, fuelConsumption, routeCost, apiKey, promises,
                 routeWeatherData, written, clicks, cancelled, mapVars>>

\* stopSimulation, on the component and the timers
Stopped(c) ==
  [c EXCEPT !.simulationIntervalRef = Null, !.isSimulationRunning = FALSE]

\* the Stop button (disabled unless isSimulationRunning)
StopClicked ==
  /\ clicks < MaxClicks
  /\ ~MicrotasksPending
  /\ component.isSimulationRunning
  /\ runs' = ClearInterval(runs, component.simulationIntervalRef)
  /\ component' = Stopped(component)
  /\ clicks' = clicks + 1
  /\ cancelled' = TRUE
  /\ UNCHANGED <<pc, fn, args, result, fuelConsumption, routeCost, apiKey, promises,
                 routeWeatherData, written, parent, mapVars>>

\* the Reset button: resetSimulation
ResetClicked ==
  /\ clicks < MaxClicks
  /\ ~MicrotasksPending
  /\ runs' = ClearInterval(runs, component.simulationIntervalRef)
  /\ component' = [Stopped(component) EXCEPT !.shipPosition = 0,
                                             !.simulationProgress = Fin(0),
                                             !.currentWeatherAffectedSpeed = 0,
                                             !.currentWaypointWeather = Null,
                                             !.totalTravelTime = Fin(0),
                                             !.currentSegmentTime = Fin(0),
                                             !.currentFuelConsumption = Null,
                                             !.currentRouteCost = Null]
  /\ parent' = [updates |-> parent.updates + 1,
                last |-> [isRunning |-> FALSE, position |-> 0, progress |-> Fin(0),
                          weatherSpeed |-> 0]]
  /\ clicks' = clicks + 1
  /\ cancelled' = TRUE
  /\ UNCHANGED <<pc, fn, args, result, fuelConsumption, routeCost, apiKey, promises,
                 routeWeatherData, written, mapVars>>

SimNext ==
  \/ StartClicked
  \/ \E r \in DOMAIN runs : FetchSettles(r)
  \/ \E r \in DOMAIN runs : Tick(r)
  \/ StopClicked
  \/ ResetClicked

SimSpec == SimInit /\ [][SimNext]_vars

-----------------------------------------------------------------------------
(* UninterruptedSpec: the stepper with neither Stop nor Reset clicked, every *)
(* request answered or failed in the end, and the timer firing as long as   *)
(* it is set                                                                 *)

UninterruptedNext ==
  \/ StartClicked
  \/ \E r \in DOMAIN runs : FetchSettles(r)
  \/ \E r \in DOMAIN runs : Tick(r)

\* the run's part of a settling fetch and of a timer callback: fairness is
\* stated on these, a step of FetchSettles or Tick being exactly a step that
\* changes runs this way
RequestEnds ==
  \E r \in DOMAIN runs :
    /\ runs[r].at = "prefetch"
    /\ \E promise \in SettledFetches(apiKey, args.responses,
                                      runs[r].selectedRoute.coordinates[runs[r].index + 1],
                                      WaypointId(runs[r].selectedRoute.id, runs[r].index)) :
         runs' = Prefetched(runs, r, promise, component.simulationIntervalRef)

TimerFires ==
  \E r \in DOMAIN runs :
    /\ runs[r].interval = "active"
    /\ ~MicrotasksPending
    /\ runs' = [runs EXCEPT ![r] = Ticked(runs[r])]

\* every request is answered or fails in the end, and a timer that is set
\* keeps firing
UninterruptedSpec ==
  /\ SimInit /\ [][UninterruptedNext]_vars
  /\ WF_runs(RequestEnds)
  /\ WF_runs(TimerFires)

-----------------------------------------------------------------------------
(* MapSpec: the waypoint markers of SimpleMap and their weather fetches *)

MaxFetches == 3         \* fetchWaypointWeatherData calls on the markers of a route

\* without an API key the await of a call resumes in a microtask: no click
\* runs before the call has ended
MapMicrotasksPending == ~apiKey /\ \E i \in DOMAIN fetches : fetches[i].at = "awaiting"

\* the entry of the catch block
FailedToLoad == [error |-> "Failed to load data"]

\* the entry a call stores for its waypoint: try / catch
WaypointEntry(promise) ==
  IF promise.status = "fulfilled" THEN promise.value ELSE FailedToLoad

\* finally: setLoadingWaypoints(prev => ({ ...prev, [waypointId]: false }))
LoadingAfter(loading, waypointId) == Assigned(loading, waypointId, FALSE)

MapInit ==
  /\ pc = "mounted"
  /\ fn = "SimpleMap"
  /\ apiKey \in BOOLEAN
  /\ args \in [selectedRoute : SimulationRoutes,
               responses : IF apiKey THEN {"throws", "ok"} ELSE {"none"}]
  /\ result = None
  /\ fuelConsumption = None
  /\ routeCost = None
  /\ promises = << >>
  /\ routeWeatherData = EmptyObject
  /\ written = << >>
  /\ component = MountedComponent
  /\ runs = << >>
  /\ parent = NoUpdates
  /\ clicks = 0
  /\ cancelled = FALSE
  /\ loadingWaypoints = EmptyObject
  /\ waypointData = EmptyObject
  /\ fetches = << >>

\* a click on the marker of waypoint index, or on its Load, Refresh or Retry
\* button: fetchWaypointWeatherData up to its await
CallFetchWaypointWeatherData(index) ==
  /\ Len(fetches) < MaxFetches
  /\ ~MapMicrotasksPending
  /\ LET waypointId == WaypointId(args.selectedRoute.id, index)
     IN /\ loadingWaypoints' = Assigned(loadingWaypoints, waypointId, TRUE)
        /\ fetches' = Append(fetches, [waypointId |-> waypointId,
                                       coord |-> args.selectedRoute.coordinates[index + 1],
                                       at |-> "awaiting"])
  /\ UNCHANGED <<pc, fn, args, result, fuelConsumption, routeCost, apiKey, promises,
                 routeWeatherData, written, simVars, waypointData>>

\* the fetch call i awaits settles: the entry is stored and the finally block
\* runs
FetchWaypointWeatherDataResumes(i) ==
  /\ fetches[i].at = "awaiting"
  /\ \E promise \in SettledFetches(apiKey, args.responses, fetches[i].coord,
                                  fetches[i].waypointId) :
       waypointData' = Assigned(waypointData, fetches[i].waypointId, WaypointEntry(promise))
  /\ loadingWaypoints' = LoadingAfter(loadingWaypoints, fetches[i].waypointId)
  /\ fetches' = [fetches EXCEPT ![i].at = "finished"]
  /\ UNCHANGED <<pc, fn, args, result, fuelConsumption, routeCost, apiKey, promises,
                 routeWeatherData, written, simVars>>

MapNext ==
  \/ \E index \in 0..(Len(args.selectedRoute.coordinates) - 1) :
       CallFetchWaypointWeatherData(index)
  \/ \E i \in DOMAIN fetches : FetchWaypointWeatherDataResumes(i)

MapSpec == MapInit /\ [][MapNext]_vars

-----------------------------------------------------------------------------
(* Properties of the speed composer and the resistance calculators (Spec) *)

Returned(f) == pc = "returned" /\ fn = f

\* the snapshot of the call is absent, or lacks its weather or its ocean part
SnapshotAbsent ==
  \/ args.weatherData = Null
  \/ args.weatherData.weather = Null
  \/ args.weatherData.ocean = Null

\* C1: with weatherData absent, or its weather or its ocean sub-object absent,
\* calculateWeatherAffectedSpeed returns exactly sog = stw = baseSpeed,
\* powerIncrease = fuelIncrease = totalResistance = 0 and empty factors, for
\* every baseSpeed and course, and raises no error.
C1_NoDataReturnsBaseSpeed ==
  (Returned("calculateWeatherAffectedSpeed") /\ SnapshotAbsent) =>
    /\ result.sog = args.baseSpeed * Kn
    /\ result.stw = args.baseSpeed * Kn
    /\ result.powerIncrease = Fin(0)
    /\ result.fuelIncrease = Fin(0)
    /\ result.totalResistance = 0
    /\ DOMAIN result.factors = {}
    /\ ~result.threw

\* a call with a weather part but no ocean part, at a base speed below the 5 kn floor
C1_Witness ==
  /\ Returned("calculateWeatherAffectedSpeed")
  /\ args.weatherData # Null
  /\ args.weatherData.weather # Null
  /\ args.weatherData.ocean = Null
  /\ args.baseSpeed = 3
  /\ result.stw = 3 * Kn

\* C2 as claimed: for every baseSpeed, course and snapshot (an absent one
\* included) the returned sog is never negative and stw never below 5 kn.
C2_FloorsForEveryInput ==
  Returned("calculateWeatherAffectedSpeed") =>
    /\ result.sog >= 0
    /\ result.stw >= 5 * Kn

\* C2 as amended: with a snapshot present, sog >= 0 and stw >= 5 kn for every
\* baseSpeed and course; with the snapshot absent sog = stw = baseSpeed, so
\* sog >= 0 exactly when baseSpeed >= 0 and stw >= 5 kn exactly when
\* baseSpeed >= 5.
C2_FloorsWhenSnapshotPresent ==
  Returned("calculateWeatherAffectedSpeed") =>
    IF SnapshotAbsent
    THEN /\ (result.sog >= 0) <=> (args.baseSpeed >= 0)
         /\ (result.stw >= 5 * Kn) <=> (args.baseSpeed >= 5)
    ELSE /\ result.sog >= 0
         /\ result.stw >= 5 * Kn

\* a call with a snapshot in which both clamps are active
C2_Witness ==
  /\ Returned("calculateWeatherAffectedSpeed")
  /\ ~SnapshotAbsent
  /\ args.baseSpeed * Kn + result.factors.totalSpeedImpact < 0
  /\ args.baseSpeed * Kn - result.factors.totalSpeedImpact < 5 * Kn
  /\ result.sog = 0
  /\ result.stw = 5 * Kn

\* the along-course component of a sea of `height' dm running in `direction'
AlongCourse(height, direction, shipCourse) == height * CosMilli(direction - shipCourse)

\* speedLoss is never negative, 0 for a negative along-course component and
\* the component times the coefficient (thousandths of a knot per metre) for
\* a positive one
LossIsClampedProduct(along, speedLoss, coefficient) ==
  /\ speedLoss >= 0
  /\ along < 0 => speedLoss = 0
  /\ along > 0 => speedLoss * 10 = along * coefficient

\* C3: for calculateWaveResistance and calculateSwellResistance, for every
\* height >= 0, direction and course, speedLoss >= 0; it is exactly 0 when the
\* along-course component is negative, and the component times 0.3 (waves) or
\* 0.2 (swell) when it is positive.
C3_SpeedLossClamped ==
  /\ Returned("calculateWaveResistance") =>
       LossIsClampedProduct(
         AlongCourse(args.waveHeight, args.waveDirection, args.shipCourse),
         result.speedLoss, 300)
  /\ Returned("calculateSwellResistance") =>
       LossIsClampedProduct(
         AlongCourse(args.swellHeight, args.swellDirection, args.shipCourse),
         result.speedLoss, 200)

\* a following sea: the component is negative and the loss is 0
C3_Witness ==
  /\ Returned("calculateWaveResistance")
  /\ args.waveHeight > 0
  /\ result.alongCourse < 0
  /\ result.speedLoss = 0

\* the snapshot of the call is present and every magnitude in it is 0
Calm ==
  /\ ~SnapshotAbsent
  /\ (args.weatherData.weather.wind = Null \/ args.weatherData.weather.wind.speed = 0)
  /\ args.weatherData.ocean.waveHeight = 0
  /\ args.weatherData.ocean.swellHeight = 0
  /\ args.weatherData.ocean.currentSpeed = 0

\* C6: in the calm scenario (wind speed, wave height, swell height and current
\* speed all 0) calculateWeatherAffectedSpeed returns sog = baseSpeed exactly
\* and totalResistance = 0, for every course and every wind, swell and current
\* direction.  Stated for the base speeds that are not negative: sog is
\* clamped at 0.
C6_CalmKeepsBaseSpeed ==
  (Returned("calculateWeatherAffectedSpeed") /\ Calm /\ args.baseSpeed >= 0) =>
    /\ result.sog = args.baseSpeed * Kn
    /\ result.totalResistance = 0

\* a calm call on an oblique course with the directions not aligned with it
C6_Witness ==
  /\ Returned("calculateWeatherAffectedSpeed")
  /\ Calm
  /\ args.baseSpeed = 20
  /\ args.shipCourse = 30
  /\ args.weatherData.weather.wind # Null
  /\ args.weatherData.weather.wind.deg = 90
  /\ args.weatherData.ocean.swellDirection = 120
  /\ args.weatherData.ocean.currentDirection = 180
  /\ result.sog = 20 * Kn

\* the inputs of the "Test Calculations" button, at ship speed 20
RegressionScenario ==
  /\ args.baseSpeed = 20
  /\ args.shipCourse = 90
  /\ args.weatherData =
       [weather |-> [wind |-> [speed |-> 10, deg |-> 180]],
        ocean |-> [waveHeight |-> 15, swellHeight |-> 10, swellDirection |-> 180,
                   currentSpeed |-> 20, currentDirection |-> 90]]

\* C7: baseSpeed 20, course 90, wind 10 m/s from 180, waves 1.5 m, swell 1.0 m
\* towards 180, current 2.0 kn towards 90: the returned sog exceeds baseSpeed.
C7_RegressionScenarioGains ==
  (Returned("calculateWeatherAffectedSpeed") /\ RegressionScenario) =>
    result.sog > args.baseSpeed * Kn

\* the scenario was computed: the favourable current of 2 kn is the whole gain
C7_Witness ==
  /\ Returned("calculateWeatherAffectedSpeed")
  /\ RegressionScenario
  /\ result.factors.current.alongCourse = 2 * Kn
  /\ result.sog = 22 * Kn

\* C8: calculateWeatherAffectedSpeed rejects a baseSpeed <= 0 by signalling an
\* invalid-argument error, and for baseSpeed <= 0 never returns a powerIncrease
\* or fuelIncrease that is infinite or NaN.
C8_RejectsNonPositiveBaseSpeed ==
  (Returned("calculateWeatherAffectedSpeed") /\ args.baseSpeed <= 0) =>
    /\ result.threw
    /\ result.powerIncrease.cls = "finite"
    /\ result.fuelIncrease.cls = "finite"

\* baseSpeed 0 with a snapshot: nothing is raised, powerIncrease is Infinity
C8_Witness ==
  /\ Returned("calculateWeatherAffectedSpeed")
  /\ args.baseSpeed = 0
  /\ ~SnapshotAbsent
  /\ ~result.threw
  /\ result.powerIncrease.cls = "inf"
  /\ result.fuelIncrease.cls = "inf"

\* C10: for windSpeed > 0, a wind blowing FROM the heading (windDirection
\* congruent to shipCourse mod 360) is classified isHeadwind and not
\* isTailwind with a positive speedImpact; a wind FROM dead astern
\* (windDirection congruent to shipCourse + 180) is classified isTailwind with
\* a speedImpact that is not positive.
C10_HeadwindClassification ==
  (Returned("calculateWindResistance") /\ args.windSpeed > 0) =>
    /\ (args.windDirection - args.shipCourse) % 360 = 0 =>
         /\ result.isHeadwind
         /\ ~result.isTailwind
         /\ result.speedImpact > 0
    /\ (args.windDirection - args.shipCourse) % 360 = 180 =>
         /\ result.isTailwind
         /\ result.speedImpact <= 0

\* wind of 10 m/s from 90 on course 90, dead ahead: classified a tailwind,
\* with a negative speedImpact that raises sog
C10_Witness ==
  /\ Returned("calculateWindResistance")
  /\ args.windSpeed = 10
  /\ args.windDirection = 90
  /\ args.shipCourse = 90
  /\ result.isTailwind
  /\ ~result.isHeadwind
  /\ result.speedImpact < 0

\* C11: for a height > 0, a wave or swell that propagates along the course
\* (direction congruent to shipCourse mod 360, "to" convention) is reported
\* as a following sea or swell with speedLoss = 0, and one that propagates
\* against the course (direction congruent to shipCourse + 180) as a head sea
\* or swell with speedLoss > 0.
C11_FollowingSeaClassification ==
  /\ (Returned("calculateWaveResistance") /\ args.waveHeight > 0) =>
       /\ (args.waveDirection - args.shipCourse) % 360 = 0 =>
            result.isFollowingSea /\ result.speedLoss = 0
       /\ (args.waveDirection - args.shipCourse) % 360 = 180 =>
            result.isHeadSea /\ result.speedLoss > 0
  /\ (Returned("calculateSwellResistance") /\ args.swellHeight > 0) =>
       /\ (args.swellDirection - args.shipCourse) % 360 = 0 =>
            result.isFollowingSwell /\ result.speedLoss = 0
       /\ (args.swellDirection - args.shipCourse) % 360 = 180 =>
            result.isHeadSwell /\ result.speedLoss > 0

\* a swell of 1.5 m propagating towards 90 on course 90: reported as a head
\* swell that costs speed
C11_Witness ==
  /\ Returned("calculateSwellResistance")
  /\ args.swellHeight = 15
  /\ args.swellDirection = 90
  /\ args.shipCourse = 90
  /\ result.isHeadSwell
  /\ ~result.isFollowingSwell
  /\ result.speedLoss > 0

Calculators ==
  {"calculateWindResistance", "calculateWaveResistance", "calculateSwellResistance",
   "calculateCurrentEffect"}

\* the relativeAngle the calculator f computes for the arguments a
RelativeAngleOf(f, a) ==
  CASE f = "calculateWindResistance" ->
         calculateWindResistance(a.windSpeed, a.windDirection, a.shipCourse, a.shipSpeed).relativeAngle
    [] f = "calculateWaveResistance" ->
         calculateWaveResistance(a.waveHeight, a.waveDirection, a.shipCourse).relativeAngle
    [] f = "calculateSwellResistance" ->
         calculateSwellResistance(a.swellHeight, a.swellDirection, a.shipCourse).relativeAngle
    [] f = "calculateCurrentEffect" ->
         calculateCurrentEffect(a.currentSpeed, a.currentDirection, a.shipCourse).relativeAngle

\* every calculator, for every direction and course, keeps relativeAngle in
\* the domain
NormalizedInto(domain) ==
  \A f \in Calculators : \A a \in SpeedArgs(f) : RelativeAngleOf(f, a) \in domain

\* C17: the relativeAngle of the four calculators is normalized into one
\* fixed domain, [-180,180] or [0,360), the same for all four, for every
\* direction and every course, the negative courses included.
C17_RelativeAngleNormalized ==
  (fn \in Calculators /\ pc = "returned") =>
    /\ result.relativeAngle = RelativeAngleOf(fn, args)
    /\ NormalizedInto(-180..180) \/ NormalizedInto(0..359)

\* a swell towards 330 on course -90: the angle handed to the cosine is 420
C17_Witness ==
  /\ Returned("calculateSwellResistance")
  /\ args.swellDirection = 330
  /\ args.shipCourse = -90
  /\ result.relativeAngle = 420

\* the composer has returned for a snapshot with its weather and ocean parts
ComposedWithWeather == Returned("calculateWeatherAffectedSpeed") /\ ~SnapshotAbsent

\* Math.max(0, baseSpeed - the three losses): the sog if there were no current
SogWithoutCurrent ==
  Max(0, args.baseSpeed * Kn - result.factors.wind.speedImpact
                             - result.factors.waves.speedLoss
                             - result.factors.swell.speedLoss)

\* C22: with weather present totalSpeedImpact = current.alongCourse -
\* wind.speedImpact - wave.speedLoss - swell.speedLoss, sog = max(0, baseSpeed
\* + totalSpeedImpact) and stw = max(5, baseSpeed - totalSpeedImpact); with
\* neither clamp active sog + stw = 2 * baseSpeed; the current enters with
\* its full signed projection: an adverse one lowers sog, a favourable one
\* raises it.
C22_SpeedComposition ==
  ComposedWithWeather =>
    LET base == args.baseSpeed * Kn
        impact == result.factors.totalSpeedImpact
        current == result.factors.current
        ocean == args.weatherData.ocean
    IN /\ impact = current.alongCourse - result.factors.wind.speedImpact
                     - result.factors.waves.speedLoss - result.factors.swell.speedLoss
       /\ result.sog = Max(0, base + impact)
       /\ result.stw = Max(MinimumStw * Kn, base - impact)
       /\ (base + impact >= 0 /\ base - impact >= MinimumStw * Kn) =>
            result.sog + result.stw = 2 * base
       /\ current.alongCourse =
            ocean.currentSpeed * CosMilli(ocean.currentDirection - args.shipCourse) * 100
       /\ current.alongCourse < 0 =>
            /\ result.sog <= SogWithoutCurrent
            /\ SogWithoutCurrent > 0 => result.sog < SogWithoutCurrent
       /\ current.alongCourse > 0 =>
            /\ result.sog >= SogWithoutCurrent
            /\ result.sog > 0 => result.sog > SogWithoutCurrent

\* an adverse current with neither clamp active: sog is below the sog without
\* the current, and sog + stw is twice the base speed
C22_Witness ==
  /\ ComposedWithWeather
  /\ args.baseSpeed = 20
  /\ result.factors.current.alongCourse < 0
  /\ 0 < result.sog /\ result.sog < SogWithoutCurrent
  /\ result.stw > MinimumStw * Kn
  /\ result.sog + result.stw = 40 * Kn

-----------------------------------------------------------------------------
(* Properties of the fuel and route-cost estimators (FuelSpec) *)

SnapshotSupplied == ~NoWeatherData(args.weatherData)

\* the calm band of the fuel multiplier: wind at most 10 m/s, waves at most 2 m
CalmBand ==
  /\ SnapshotSupplied
  /\ WindSpeedOf(args.weatherData) <= 10
  /\ args.weatherData.ocean.waveHeight <= 20

\* the estimate is recomputed for a snapshot that is no calmer in one
\* quantity and the same in the other
RefreshedNoCalmer ==
  /\ pc = "fuel" /\ pc' = "fuel"
  /\ SnapshotSupplied /\ SnapshotSupplied'
  /\ \/ /\ WindSpeedOf(args.weatherData) <= WindSpeedOf(args.weatherData')
        /\ args.weatherData.ocean.waveHeight = args.weatherData'.ocean.waveHeight
     \/ /\ WindSpeedOf(args.weatherData) = WindSpeedOf(args.weatherData')
        /\ args.weatherData.ocean.waveHeight <= args.weatherData'.ocean.waveHeight

\* C4: the fuel weatherMultiplier never decreases when the wind speed grows
\* with the wave height fixed, nor when the wave height grows with the wind
\* speed fixed; it is exactly 1.0 in the calm band (wind <= 10, wave <= 2) and
\* whenever no snapshot is supplied.
C4_FuelMultiplierMonotone ==
  /\ [](pc = "fuel" /\ (CalmBand \/ ~SnapshotSupplied)
          => fuelConsumption.weatherMultiplier = 1000)
  /\ [][RefreshedNoCalmer
          => fuelConsumption.weatherMultiplier <= fuelConsumption'.weatherMultiplier]_vars

\* both steps taken: wind above 15 m/s and waves above 3 m compound to 1.5
C4_Witness ==
  /\ pc = "fuel"
  /\ SnapshotSupplied
  /\ WindSpeedOf(args.weatherData) > 15
  /\ args.weatherData.ocean.waveHeight > 30
  /\ fuelConsumption.weatherMultiplier = 1500

\* C5: for every fuel estimate made with a positive ship speed, every index
\* in 0..totalWaypoints-1, every route style and every snapshot, the route
\* cost has weatherMultiplier >= 1.0, total >= baseCost and
\* breakdown.weather = total - baseCost >= 0.
C5_RouteCostNotBelowBase ==
  pc = "cost" /\ args.shipSpeed > 0
              /\ args.currentWaypointIndex \in 0..(args.totalWaypoints - 1) =>
    /\ routeCost.weatherMultiplier >= 10
    /\ routeCost.total >= routeCost.baseCost
    /\ routeCost.breakdown.weather = routeCost.total - routeCost.baseCost
    /\ routeCost.breakdown.weather >= 0

\* severe conditions on a canal route: the surcharge is charged
C5_Witness ==
  /\ pc = "cost"
  /\ args.selectedRoute.style = "dashed"
  /\ routeCost.weatherMultiplier = 11
  /\ routeCost.breakdown.weather > 0
  /\ routeCost.total > routeCost.baseCost

\* C23: canalFees is charged only on a canal route (style "dashed") whose
\* canal is still ahead: it is 0 on any other route, and 0 once the ship has
\* passed the canal -- at the latest at the last waypoint of the route, where
\* every waypoint of the canal is behind it.
C23_CanalFeesOnlyBeforeCanal ==
  pc = "cost" =>
    /\ args.selectedRoute.style # "dashed" => routeCost.canalFees = 0
    /\ routeCost.canalFees > 0 =>
         /\ args.selectedRoute.style = "dashed"
         /\ args.currentWaypointIndex < args.totalWaypoints - 1

\* the ship is at the last of three waypoints of a canal route and the fee of
\* the canal is still in the cost
C23_Witness ==
  /\ pc = "cost"
  /\ args.selectedRoute.style = "dashed"
  /\ args.totalWaypoints = 3
  /\ args.currentWaypointIndex = 2
  /\ routeCost.canalFees = canalFee * 100
  /\ routeCost.baseCost >= canalFee * 100

\* C24: for ship speed 20 the three copies of calculateFuelConsumption return
\* the same record (current, remaining, total, weatherMultiplier, speedFactor,
\* resistanceFactor) on the same weatherSpeed, index, total and snapshot, with
\* total = current + remaining and remaining = current * (totalWaypoints -
\* currentWaypointIndex) * 2.
C24_FuelCopiesAgree ==
  pc = "fuel" /\ args.shipSpeed = 20 =>
    /\ \A copy \in Copies : FuelConsumptionOf(copy, args) = fuelConsumption
    /\ DOMAIN fuelConsumption = {"current", "remaining", "total", "weatherMultiplier",
                                 "speedFactor", "resistanceFactor"}
    /\ fuelConsumption.total = fuelConsumption.current + fuelConsumption.remaining
    /\ fuelConsumption.remaining =
         fuelConsumption.current * (args.totalWaypoints - args.currentWaypointIndex) * 2

\* SimpleMap's estimate at half the base speed in rough weather, equal to the
\* one ShipSimulation makes at ship speed 20
C24_Witness ==
  /\ pc = "fuel"
  /\ fn = "SimpleMap"
  /\ args.shipSpeed = 20
  /\ args.weatherSpeed = 10 * Kn
  /\ fuelConsumption.weatherMultiplier = 1500
  /\ fuelConsumption.speedFactor = 500
  /\ fuelConsumption.remaining > 0
  /\ ShipSimulation_calculateFuelConsumption(20, args.weatherSpeed, args.currentWaypointIndex,
                                             args.totalWaypoints, args.weatherData)
       = fuelConsumption

-----------------------------------------------------------------------------
(* Properties of the travel-time estimator (TimeSpec) *)

\* C9: calculateTravelTime rejects a speed <= 0 with an invalid-argument
\* error and never returns an infinite, negative or NaN timeHours for it.
C9_RejectsNonPositiveSpeed ==
  Returned("calculateTravelTime") /\ args.speed <= 0 =>
    /\ result.threw
    /\ result.timeHours.cls = "finite"
    /\ result.timeHours.val >= 0

\* speed 0 between two different points: the call returns, timeHours is
\* Infinity
C9_Witness ==
  /\ Returned("calculateTravelTime")
  /\ args.speed = 0
  /\ args.waypoint1 # args.waypoint2
  /\ ~result.threw
  /\ result.timeHours = PosInf

\* C21: at 10 kn a distance of 1852 km gives speedKmh = 18.52 and
\* timeHours = 100; and every call with speed > 0 returns
\* speedKmh = speed * 1.852, timeHours = distance / speedKmh (to the hundredth
\* of an hour the model keeps) and timeMinutes = 60 * timeHours.
C21_TravelTimeFormula ==
  /\ TravelTime(1852, 10 * Kn).speedKmh = 18520
  /\ TravelTime(1852, 10 * Kn).timeHours = Fin(100 * 100)
  /\ TravelTime(1852, 10 * Kn).timeMinutes = Fin(60 * 100 * 100)
  /\ Returned("calculateTravelTime") /\ args.speed > 0 =>
       /\ result.distance = Haversine(args.waypoint1, args.waypoint2)
       /\ result.speedKmh = (args.speed \div Kn) * 1852
       /\ result.timeHours.cls = "finite"
       /\ result.timeHours.val * result.speedKmh <= result.distance * 100000
       /\ result.distance * 100000 < (result.timeHours.val + 1) * result.speedKmh
       /\ result.timeMinutes = Fin(60 * result.timeHours.val)

\* a call at 10 kn over a leg of 30 degrees of longitude on the equator
C21_Witness ==
  /\ Returned("calculateTravelTime")
  /\ args.speed = 10 * Kn
  /\ args.waypoint1 = <<0, 0>>
  /\ args.waypoint2 = <<0, 30>>
  /\ result.speedKmh = 18520
  /\ result.timeHours.val > 0

-----------------------------------------------------------------------------
(* Properties of the route-length function (DistanceSpec) *)

\* the copy's calculateDistance
DistanceOf(copy, latLngs) ==
  IF copy = "SimpleMap" THEN calculateDistance(latLngs)
  ELSE WorldMap_calculateDistance(latLngs)

\* C18: calculateDistance returns 0 for every coordinate sequence of length 0
\* or 1, in the SimpleMap and in the WorldMap implementation.
C18_DegenerateDistanceIsZero ==
  (pc = "returned" /\ fn \in MapComponents /\ Len(args.latLngs) <= 1) => result = 0

\* a lone point away from [0, 0], in the WorldMap copy
C18_Witness ==
  /\ pc = "returned"
  /\ fn = "WorldMap"
  /\ args.latLngs = <<(<<30, 90>>)>>
  /\ result = 0

\* the sum of the great-circle distances of the consecutive points
RECURSIVE PairwiseSum(_)
PairwiseSum(latLngs) ==
  IF Len(latLngs) < 2 THEN 0
  ELSE Haversine(latLngs[1], latLngs[2]) + PairwiseSum(Tail(latLngs))

\* C19: distance([A,B,C]) = distance([A,B]) + distance([B,C]) for any three
\* points, and the distance of any sequence is the sum of the pairwise
\* distances of its consecutive points.
C19_SegmentAdditivity ==
  (pc = "returned" /\ fn \in MapComponents) =>
    /\ result = PairwiseSum(args.latLngs)
    /\ Len(args.latLngs) = 3 =>
         result = DistanceOf(fn, SubSeq(args.latLngs, 1, 2))
                    + DistanceOf(fn, SubSeq(args.latLngs, 2, 3))

\* three points with the middle one off the great circle of the other two:
\* the whole is longer than the direct leg
C19_Witness ==
  /\ pc = "returned"
  /\ fn = "SimpleMap"
  /\ args.latLngs = <<(<<0, 0>>), (<<60, 30>>), (<<0, 90>>)>>
  /\ result > Haversine(<<0, 0>>, <<0, 90>>)
  /\ result = Haversine(<<0, 0>>, <<60, 30>>) + Haversine(<<60, 30>>, <<0, 90>>)

-----------------------------------------------------------------------------
(* Properties of the simulated ocean data (OceanSpec) *)

\* C20: generateOceanData yields swellDirection and currentDirection inside
\* 0..360, never negative, for every wind direction in 0..360 and every
\* random offset in [-30, 30); generateFallbackWeatherData yields a wind
\* direction in 0..359.
C20_DirectionsInRange ==
  /\ Returned("generateOceanData") =>
       /\ result.swellDirection \in 0..360
       /\ result.currentDirection \in 0..360
  /\ Returned("generateFallbackWeatherData") =>
       /\ result.weather.wind.deg \in 0..359
       /\ result.ocean.swellDirection \in 0..360
       /\ result.ocean.currentDirection \in 0..360

\* wind from 10 degrees and the lowest draw, an offset of -30: the swell
\* direction is -20
C20_Witness ==
  /\ Returned("generateOceanData")
  /\ args.weatherData.wind # Null
  /\ args.weatherData.wind.deg = 10
  /\ args.rnd.swellDirection = 0
  /\ result.swellDirection = -20

-----------------------------------------------------------------------------
(* Properties of the weather service (WeatherSpec) *)

\* a record with both sub-objects populated: the composer's no-data branch is
\* not taken for it, and every field the composer reads from the ocean part
\* is there
Populated(data) ==
  /\ ~NoWeatherData(data)
  /\ {"wind", "main", "weather"} \subseteq DOMAIN data.weather
  /\ {"waveHeight", "swellHeight", "swellDirection", "currentSpeed", "currentDirection"}
       \subseteq DOMAIN data.ocean

\* C14: fetchWaypointWeather never rejects and never returns an error marker:
\* without an API key, after a response that is not ok, after a network or
\* parse exception and after a successful response it resolves to a record
\* with a populated weather and a populated ocean sub-object.  The body of a
\* response that is ok is a JSON object (wind, main and weather may be
\* missing from it), null, or not a JSON text.
C14_FetchAlwaysResolvesPopulated ==
  \A i \in DOMAIN promises :
    /\ promises[i].status # "rejected"
    /\ promises[i].at = "settled" =>
         /\ promises[i].status = "fulfilled"
         /\ promises[i].via \in {"no key", "not ok", "exception", "live"}
         /\ "error" \notin DOMAIN promises[i].value
         /\ Populated(promises[i].value)

\* with a key configured, three fetches have settled by three different
\* paths: an exception, a response that is not ok and a live body
C14_Witness ==
  /\ apiKey
  /\ Len(promises) = 3
  /\ \A i \in DOMAIN promises : promises[i].at = "settled"
  /\ {promises[i].via : i \in DOMAIN promises} = {"exception", "not ok", "live"}
  /\ \A i \in DOMAIN promises : Populated(promises[i].value)

\* the keys of the waypoints 0 .. n-1 of the call
RouteKeys == {WaypointId(args.routeId, i - 1) : i \in 1..Len(args.waypoints)}

\* C15: fetchRouteWeatherData resolves only after all n fetches have settled,
\* for every completion order and outcome; the resolved map has exactly the n
\* keys '<routeId>-waypoint-<i>', i in 0..n-1, and each key is written
\* exactly once, by the fetch of its own waypoint.
C15_RouteWeatherComplete ==
  /\ \A a, b \in DOMAIN written : written[a] = written[b] => a = b
  /\ \A k \in DOMAIN routeWeatherData :
       /\ k \in RouteKeys
       /\ routeWeatherData[k].waypointId = k
       /\ routeWeatherData[k].coordinates = args.waypoints[k[3] + 1]
  /\ (fn = "fetchRouteWeatherData" /\ pc = "returned") =>
       /\ \A i \in DOMAIN promises : promises[i].at = "settled" /\ promises[i].handled
       /\ DOMAIN result = RouteKeys
       /\ {written[a] : a \in DOMAIN written} = RouteKeys
       /\ Len(written) = Len(args.waypoints)

\* three waypoints whose fetches completed in the reverse of the order in
\* which they were issued
C15_Witness ==
  /\ fn = "fetchRouteWeatherData"
  /\ pc = "returned"
  /\ Len(args.waypoints) = 3
  /\ written = <<WaypointId(1, 2), WaypointId(1, 1), WaypointId(1, 0)>>
  /\ DOMAIN result = RouteKeys

-----------------------------------------------------------------------------
(* Properties of the simulation stepper (SimSpec) *)

\* the keys of a complete table of the route of a run
AllWaypointIds(run) ==
  {WaypointId(run.selectedRoute.id, i) : i \in 0..(Len(run.selectedRoute.coordinates) - 1)}

\* C12: a run of startSimulation makes no waypoint step (no
\* calculateWaypointSpeed call, no live timer) before its preloadWeatherData
\* has fetched and stored an entry for every waypoint index 0 .. n-1, and
\* every step reads the table the prefetch returned, complete and unchanged.
C12_NoStepBeforePrefetchCompletes ==
  \A r \in DOMAIN runs :
    LET run == runs[r]
        n == Len(run.selectedRoute.coordinates)
    IN /\ (run.interval # "none" \/ run.calculated # << >>) =>
            /\ run.index = n
            /\ DOMAIN run.newWaypointData = AllWaypointIds(run)
       /\ \A s \in DOMAIN run.steps :
            /\ run.steps[s].fetched = n
            /\ DOMAIN run.steps[s].table = AllWaypointIds(run)
            /\ run.steps[s].table = run.newWaypointData

\* a run on three waypoints has made its three steps
C12_Witness ==
  \E r \in DOMAIN runs :
    /\ Len(runs[r].selectedRoute.coordinates) = 3
    /\ Len(runs[r].steps) = 3
    /\ runs[r].index = 3

\* C13: once Stop or Reset has been clicked (and until Start is clicked
\* again) no timer of the stepper is live, and a step that is not a click
\* changes neither the ship position, nor the progress, nor the number of
\* notifications the parent has received.
C13_NothingAdvancesAfterCancellation ==
  [][(cancelled /\ cancelled' /\ clicks' = clicks) =>
       /\ \A r \in DOMAIN runs' : runs'[r].interval # "active"
       /\ component'.shipPosition = component.shipPosition
       /\ component'.simulationProgress = component.simulationProgress
       /\ parent'.updates = parent.updates]_vars

\* Stop or Reset was clicked while the prefetch was pending, and since then the
\* orphaned run has notified the parent, started its timer and moved the ship
C13_Witness ==
  /\ cancelled
  /\ ~component.isSimulationRunning
  /\ component.shipPosition >= 1
  /\ \E r \in DOMAIN runs : runs[r].interval = "active" /\ Len(runs[r].calculated) >= 2
  /\ parent.last # None /\ parent.last.isRunning

\* 0, 1, ..., Len(s) - 1
CountsFromZero(s) == \A i \in DOMAIN s : s[i] = i - 1

\* C16: within one run on n waypoints the indices passed to
\* calculateWaypointSpeed and the values passed to setShipPosition are
\* 0, 1, ..., k in this order, without skip or repeat, with k <= n - 1; the
\* run's index never exceeds n - 1, and a run that has completed has gone
\* through all of 0 .. n-1.
C16_OneWaypointPerTick ==
  \A r \in DOMAIN runs :
    LET run == runs[r]
        n == Len(run.selectedRoute.coordinates)
    IN /\ CountsFromZero(run.calculated)
       /\ CountsFromZero(run.positioned)
       /\ Len(run.calculated) <= n
       /\ Len(run.positioned) <= n
       /\ run.currentWaypoint <= n - 1
       /\ run.at = "stepping" =>
            /\ Len(run.calculated) = run.currentWaypoint + 1
            /\ Len(run.positioned) = run.currentWaypoint + 1
       /\ run.at = "done" =>
            /\ Len(run.calculated) = n
            /\ Len(run.positioned) = n

\* a run on three waypoints has completed
C16_Witness ==
  \E r \in DOMAIN runs :
    /\ runs[r].at = "done"
    /\ runs[r].calculated = <<0, 1, 2>>
    /\ runs[r].positioned = <<0, 1, 2>>

\* currentWeatherAffectedSpeed || shipSpeed, on a speed in micro-knots
SpeedOrBase(speed, shipSpeed) == IF speed # 0 THEN speed ELSE shipSpeed * Kn

\* the travel time of the leg from waypoint k of a run's route at a speed
LegTime(run, k, speed) ==
  calculateTravelTime(run.selectedRoute.coordinates[k + 1],
                      run.selectedRoute.coordinates[k + 2], speed).timeHours

\* C25: a tick that moves a run to a waypoint k < n-1 stores in
\* currentSegmentTime, and adds to totalTravelTime, the travel time of the leg
\* k -> k+1 at the weather-affected speed calculated at that tick for
\* waypoint k (at the ship speed only if that speed is 0).
C25_SegmentTimeUsesSpeedOfTheTick ==
  [][\A r \in DOMAIN runs :
       (/\ r \in DOMAIN runs'
        /\ runs'[r].currentWaypoint = runs[r].currentWaypoint + 1
        /\ runs'[r].currentWaypoint < Len(runs[r].selectedRoute.coordinates) - 1) =>
         LET time == LegTime(runs[r], runs'[r].currentWaypoint,
                             SpeedOrBase(component'.currentWeatherAffectedSpeed,
                                         runs[r].shipSpeed))
         IN /\ component'.currentSegmentTime = time
            /\ component'.totalTravelTime = JsAdd(component.totalTravelTime, time)]_vars

\* after the tick to waypoint 1 of 3 the speed calculated there is below the
\* ship speed, and the stored segment time is the one at the ship speed
C25_Witness ==
  \E r \in DOMAIN runs :
    /\ Len(runs[r].selectedRoute.coordinates) = 3
    /\ runs[r].currentWaypoint = 1
    /\ component.shipPosition = 1
    /\ component.currentWeatherAffectedSpeed # 0
    /\ component.currentWeatherAffectedSpeed # runs[r].shipSpeed * Kn
    /\ component.currentSegmentTime = LegTime(runs[r], 1, runs[r].shipSpeed * Kn)
    /\ component.currentSegmentTime #
         LegTime(runs[r], 1, component.currentWeatherAffectedSpeed)

-----------------------------------------------------------------------------
(* Properties of the uninterrupted stepper (UninterruptedSpec) *)

\* run r has ended in the completed state
Completed(r) ==
  /\ Len(runs) = r
  /\ runs[r].at = "done"
  /\ runs[r].interval = "cleared"
  /\ ~component.isSimulationRunning
  /\ component.simulationProgress = Fin(100)
  /\ parent.last # None
  /\ ~parent.last.isRunning
  /\ parent.last.position = Len(runs[r].selectedRoute.coordinates) - 1
  /\ parent.last.progress = Fin(100)

\* C26: with neither Stop nor Reset clicked and the timer firing as long as it
\* is set, every started simulation reaches the completed state: timer
\* cleared, isSimulationRunning false, progress 100, the parent notified with
\* isRunning false and position n-1; and once it has completed, and until
\* Start is clicked again, no tick changes position or progress any more.
C26_Termination ==
  /\ \A r \in 1..MaxClicks : (Len(runs) = r) ~> Completed(r)
  /\ [][(runs # << >> /\ runs[Len(runs)].at = "done" /\ Len(runs') = Len(runs)) =>
          /\ runs' = runs
          /\ component'.shipPosition = component.shipPosition
          /\ component'.simulationProgress = component.simulationProgress]_vars

\* a run on three waypoints has completed and the parent was told so
C26_Witness ==
  /\ Len(runs) = 1
  /\ Len(runs[1].selectedRoute.coordinates) = 3
  /\ Completed(1)
  /\ component.shipPosition = 2

-----------------------------------------------------------------------------
(* Properties of the runs of one component (SimSpec) *)

\* the timers that are set and not cleared
ActiveTimers == {r \in DOMAIN runs : runs[r].interval = "active"}

\* the calls of startSimulation that are still going on: awaiting a fetch, or
\* stepping on a timer
LiveRuns == {r \in DOMAIN runs : runs[r].at = "prefetch" \/ runs[r].interval = "active"}

\* at most one timer is set and not cleared
OneActiveTimer == Cardinality(ActiveTimers) <= 1

\* C27: whatever the order of Start, Stop and Reset clicks and of the settling
\* fetches, at most one stepper timer is active, and no two runs are going on
\* at once: Start is disabled while isSimulationRunning is true.
C27_OneRunAtATime ==
  /\ OneActiveTimer
  /\ Cardinality(LiveRuns) <= 1

\* Stop was clicked during the prefetch of the first run and Start again: the
\* first run steps on its timer while the second one is fetching
C27_Witness ==
  /\ Len(runs) = 2
  /\ runs[1].interval = "active"
  /\ runs[1].steps # << >>
  /\ runs[2].at = "prefetch"
  /\ component.isSimulationRunning

\* isSimulationRunning of SimpleMap: false at first, then the isRunning of the
\* last update handleSimulationUpdate received
SimpleMap_isSimulationRunning ==
  IF parent.last = None THEN FALSE ELSE parent.last.isRunning

\* C28: the parent's running flag follows the stepper: whenever
\* isSimulationRunning of ShipSimulation is false (after completion, Stop or
\* Reset; updates are delivered in the call that sends them, so none is
\* pending) isSimulationRunning of SimpleMap is false too.
C28_ParentFlagFollows ==
  ~component.isSimulationRunning => ~SimpleMap_isSimulationRunning

\* Stop was clicked on a stepping run: the component has stopped and its
\* timer is cleared, the parent still shows the simulation as running
C28_Witness ==
  /\ Len(runs) = 1
  /\ runs[1].interval = "cleared"
  /\ runs[1].at = "stepping"
  /\ ~component.isSimulationRunning
  /\ SimpleMap_isSimulationRunning

-----------------------------------------------------------------------------
(* Properties of the waypoint markers (MapSpec) *)

\* the calls for waypointId whose fetch has not settled yet
InFlight(waypointId) ==
  {i \in DOMAIN fetches : fetches[i].waypointId = waypointId /\ fetches[i].at = "awaiting"}

\* loadingWaypoints[waypointId], undefined counting as false
IsLoading(waypointId) ==
  waypointId \in DOMAIN loadingWaypoints /\ loadingWaypoints[waypointId]

\* C29: whatever the order in which overlapping fetchWaypointWeatherData calls
\* on one waypoint are made and end, loadingWaypoints[waypointId] is true
\* while at least one of them is in flight and false once all have finished.
C29_LoadingWhileInFlight ==
  \A i \in DOMAIN fetches :
    IsLoading(fetches[i].waypointId) <=> InFlight(fetches[i].waypointId) # {}

\* two calls on one waypoint overlap; the first to end has cleared the flag
\* while the other is still in flight
C29_Witness ==
  \E i, j \in DOMAIN fetches :
    /\ i # j
    /\ fetches[i].waypointId = fetches[j].waypointId
    /\ fetches[i].at = "finished"
    /\ fetches[j].at = "awaiting"
    /\ ~IsLoading(fetches[j].waypointId)

-----------------------------------------------------------------------------
(* Properties of the estimates along a route (AdvanceSpec) *)

\* C30: with weather, ship speed and weather-affected speed fixed, the
\* estimates do not increase as the ship advances: for all waypoints i < j of
\* a route, FuelConsumption.remaining and RouteCost.operationalCost, portFees
\* and total at j are at most their values at i, in the copy that counts a
\* port call per ten remaining waypoints and in the copies that count the
\* remaining 'major' ports.
C30_CostNonIncreasing ==
  [][(pc = "cost" /\ args'.currentWaypointIndex > args.currentWaypointIndex) =>
       /\ fuelConsumption'.remaining <= fuelConsumption.remaining
       /\ routeCost'.operationalCost <= routeCost.operationalCost
       /\ routeCost'.portFees <= routeCost.portFees
       /\ routeCost'.total <= routeCost.total]_vars

\* on the long route the rule of ten has dropped a port call, and on a route
\* with ports the last 'major' port has been passed
C30_Witness ==
  /\ pc = "cost"
  /\ args.currentWaypointIndex > 0
  /\ \/ /\ fn = "SimpleMap"
        /\ args.totalWaypoints = LongRoute
        /\ routeCost.portFees = portFees * 100
        /\ routeCost.portFees < EstimatesAt(fn, [args EXCEPT !.currentWaypointIndex = 0]).routeCost.portFees
     \/ /\ fn = "ShipSimulation"
        /\ args.selectedRoute.ports # Null
        /\ routeCost.portFees = 0
        /\ 0 < EstimatesAt(fn, [args EXCEPT !.currentWaypointIndex = 0]).routeCost.portFees

====
